---- MODULE Spec2Model ----
(***************************************************************************)
(* Model of the two notebooks of the repository:                           *)
(*   HT_in_final.ipynb   DialogueCoherenceDataset, collate_fn, the batch    *)
(*                       steps of train_one_epoch / val_one_epoch, the      *)
(*                       training cell                                      *)
(*   LCD_in_final.ipynb  SentenceEncoder, build_pairwise_features,          *)
(*                       LCD_scorer, load_dialogues_with_speakers,          *)
(*                       bounded_margin_loss, train_one_epoch,              *)
(*                       eval_one_epoch, permute_dialogue,                  *)
(*                       compute_dialogue_pred, test_experiment, the        *)
(*                       training cell                                      *)
(* A run executes one program of Programs on inputs drawn by Init.  Every   *)
(* call of the random module is a nondeterministic choice over its          *)
(* outcomes, except where a seed fixes it.                                  *)
(***************************************************************************)
EXTENDS Integers, Sequences, FiniteSets, TLC

VARIABLES
    program,          \* "HT" or "LCD": the notebook that runs
    corpus,           \* the *.jsonl files of the folder, in listing order; a file is a sequence of lines
    max_utterances,   \* DialogueCoherenceDataset(max_utterances=...)
    num_permutations, \* test_experiment(num_permutations=...)
    pc,               \* position of the running program
    fi,               \* index of the file being read
    li,               \* number of lines of that file already consumed
    all_dialogues,    \* the loader's list
    warnings,         \* file index of every "Warning: could not parse line" printed
    di,               \* index (in all_dialogues / dialogues) of the dialogue being processed
    dialogues,        \* HT: self.dialogues
    labels,           \* HT: self.labels
    srcs,             \* history: for each entry of self.dialogues, the index in all_dialogues of its
                      \* source and the speaker whose utterances were shuffled ("" for an original)
    target_spk,       \* HT: target_spk
    indices,          \* HT: indices ; LCD: speaker_indices
    utts,             \* HT: utts ; LCD: speaker_utterances
    attempts,         \* HT: attempts
    true,             \* LCD test_experiment: true
    evaluated,        \* history: for each entry of true, the dialogue predicted on, its source
                      \* dialogue and the speaker passed to permute_dialogue ("" for an original)
    choice,           \* LCD test_experiment: choice
    other_turns,      \* LCD permute_dialogue: other_turns (consumed by pop(0))
    permutations,     \* LCD permute_dialogue: permutations
    permute_sub_idx,  \* LCD permute_dialogue: permute_sub_idx
    to_shuffle,       \* LCD permute_dialogue: to_shuffle
    shuffled,         \* LCD permute_dialogue: shuffled
    weights,          \* LCD: the parameters of scorer_fwd and scorer_bwd
    mode,             \* LCD: "train" or "eval", the mode of the encoder and the two scorers
    pred,             \* LCD test_experiment: pred
    scored,           \* history: for each entry of pred, the number of adjacent pairs scored
    n_positive,       \* HT training cell: n_positive
    n_negative,       \* HT training cell: n_negative
    pos_weight,       \* HT training cell: pos_weight, the fraction <<numerator, denominator>>
    loss_params,      \* bounded_margin_loss: margin, upper_bound, lower_bound, lambda_upper, lambda_lower
    score_pos,        \* bounded_margin_loss / train_one_epoch / eval_one_epoch: score_pos
    score_neg,        \* bounded_margin_loss / train_one_epoch / eval_one_epoch: score_neg
    loss,             \* bounded_margin_loss: the value returned
    emb_s,            \* build_pairwise_features: s
    emb_t,            \* build_pairwise_features: t
    features,         \* build_pairwise_features: the value returned
    data,             \* train_one_epoch / eval_one_epoch: dialogues
    ei,               \* index in data of the dialogue of the running iteration
    pos_i,            \* i, as a position 1..n-1 of that dialogue
    dialogue_loss,    \* train_one_epoch: dialogue_loss
    pair_count,       \* train_one_epoch: pair_count
    total_loss,       \* total_loss, in units of 1/LossUnit
    correct,          \* correct
    total,            \* total
    opt_steps,        \* number of optimizer steps taken (each changes the parameters)
    sampled,          \* history: for every position scored, the index of its dialogue, i and
                      \* neg_idx (as positions, from 1), the loss computed and the two scores
    accuracy,         \* the accuracy returned, the fraction <<numerator, denominator>>
    num_epochs,       \* training cell: num_epochs / EPOCHS
    epoch,            \* training cell: epoch, counted from 1
    params,           \* the parameters of the models in memory, the number of optimizer steps that made them
    val_acc,          \* training cell: val_acc, in units of 1/AccUnit
    best_val_acc,     \* training cell: best_val_acc, in units of 1/AccUnit
    checkpoint,       \* the parameters in the checkpoint file, NoCheckpoint while there is no file
    val_hist,         \* history: val_acc of every epoch whose validation pass completed
    params_hist,      \* history: params at the end of the training pass of every such epoch
    saves,            \* history: the epoch of every torch.save
    dataset,          \* HT: a constructed dataset, the record of its self.dialogues and self.labels
    order,            \* HT DataLoader: the dataset indices of the batch, in the sampler's order
    padded_utts,      \* HT collate_fn: padded_utts, called utter_lists by its receivers
    mask,             \* HT collate_fn: mask
    batch_labels,     \* HT collate_fn: labels
    utter_emb_batch,  \* HT train_one_epoch / val_one_epoch: utter_emb_batch after torch.stack
    transformer_mask, \* HT OrderAwareDocEncoder.forward: transformer_mask
    folder,           \* HT: the *.jsonl files of a data folder, each a sequence of lines
    rng_stream,       \* HT: the stream of raw draws set by random.seed(seed)
    first_run,        \* HT: the dataset constructed by a first process
    second_run,       \* HT: the dataset constructed by a second process, same folder and seed
    token_embeddings, \* LCD SentenceEncoder.forward: output.last_hidden_state of one sentence
    attention_mask,   \* LCD SentenceEncoder.forward: encoded["attention_mask"] of that sentence
    pooled,           \* LCD SentenceEncoder.forward: the value returned, a fraction per component
    val_labels,       \* HT training cell: val_dataset.labels
    val_n_positive,   \* HT training cell: val_n_positive
    val_n_negative,   \* HT training cell: val_n_negative
    val_pos_weight,   \* HT training cell: val_pos_weight, a fraction
    train_criterion,  \* HT training cell: the pos_weight of train_criterion, a fraction
    val_criterion     \* HT training cell: the pos_weight of val_criterion, a fraction

vars == <<program, corpus, max_utterances, num_permutations, pc, fi, li, all_dialogues,
          warnings, di, dialogues, labels, srcs, target_spk, indices, utts, attempts,
          true, evaluated, choice, other_turns,
          permutations, permute_sub_idx, to_shuffle, shuffled,
          weights, mode, pred, scored, n_positive, n_negative, pos_weight,
          loss_params, score_pos, score_neg, loss, emb_s, emb_t, features,
          data, ei, pos_i, dialogue_loss, pair_count, total_loss, correct, total, opt_steps,
          sampled, accuracy, num_epochs, epoch, params, val_acc, best_val_acc, checkpoint,
          val_hist, params_hist, saves,
          dataset, order, padded_utts, mask, batch_labels, utter_emb_batch, transformer_mask,
          folder, rng_stream, first_run, second_run, token_embeddings, attention_mask, pooled,
          val_labels, val_n_positive, val_n_negative, val_pos_weight, train_criterion,
          val_criterion>>

loadVars == <<fi, li, all_dialogues, warnings>>
htVars   == <<di, dialogues, labels, srcs, target_spk, indices, utts, attempts>>
lcdVars  == <<true, evaluated, choice, other_turns, permutations, permute_sub_idx,
              to_shuffle, shuffled>>
inputs   == <<program, corpus, max_utterances, num_permutations>>
infVars  == <<weights, mode, pred, scored>>
wtVars   == <<n_positive, n_negative, pos_weight>>
lossVars == <<loss_params, score_pos, score_neg, loss>>
featVars == <<emb_s, emb_t, features>>
epochVars == <<data, ei, pos_i, dialogue_loss, pair_count, total_loss, correct, total,
               opt_steps, sampled, accuracy>>
loopVars == <<num_epochs, epoch, params, val_acc, best_val_acc, checkpoint, val_hist,
              params_hist, saves>>
batchVars == <<dataset, order, padded_utts, mask, batch_labels, utter_emb_batch, transformer_mask>>
twiceVars == <<folder, rng_stream, first_run, second_run>>
poolVars == <<token_embeddings, attention_mask, pooled>>
critVars == <<val_labels, val_n_positive, val_n_negative, val_pos_weight, train_criterion,
              val_criterion>>
moreVars == <<batchVars, twiceVars, poolVars, critVars>>
otherVars == <<wtVars, lossVars, featVars, epochVars, loopVars, moreVars>>

----------------------------------------------------------------------------
(* Bounds of the model *)

MaxTurns == 3        \* turns of a dialogue of a one-line corpus
MaxLines == 3        \* lines of a several-line corpus
MaxFiles == 2        \* files of a corpus
MaxPerms == 2        \* largest num_permutations passed to test_experiment
SmallMaxUtterances == 3   \* a non-default max_utterances, small enough to truncate
EmbDim == 1          \* components of a sentence embedding in the model of inference
MaxDim == 2          \* largest dimension d of the embeddings given to build_pairwise_features
MaxCoord == 1        \* their components are in -MaxCoord..MaxCoord
ScoreSpread == 2     \* scores given to bounded_margin_loss go this far below lower_bound and above upper_bound
MaxEpochTurns == 4   \* utterances of a dialogue given to train_one_epoch / eval_one_epoch
MaxEpochs == 3       \* num_epochs / EPOCHS of a training cell
MaxStepsPerEpoch == 2   \* optimizer steps of one training pass
AccUnit == 2         \* validation accuracies are 0/AccUnit .. AccUnit/AccUnit
StreamLen == 2       \* raw draws of the generator before its stream repeats
RawBound == 2        \* a raw draw is in 0..RawBound-1
MaxTokens == 3       \* tokens of a sentence given to the mean pooling
MaxDataset == 2      \* loaded dialogues of a dataset a batch is taken from

(* Program constants *)

DefaultMaxUtterances == 16   \* max_utterances=16
MaxAttempts == 20            \* max_attempts = 20
MinDialogueLen == 2          \* if len(dialogue) >= 2
MinTestLen == 3              \* if len(dialogue) < 3: continue
DropoutKeep == 9             \* hidden_dropout=0.1, input_dropout=0.1: 9 inputs in 10 are kept
DropoutScale == 10           \* and scaled by 1/(1 - 0.1) = 10/9
ScoreUnit == DropoutKeep * DropoutKeep   \* scores are in units of 1/81
BatchSize == 8               \* BATCH_SIZE = 8
PositionalLen == 32          \* OrderAwareDocEncoder(..., max_len=32)

----------------------------------------------------------------------------
(* Values *)

Speakers == {"A", "B"}
TokenValues == {-1, 0, 2}   \* the components of a token embedding
Texts    == {"u", "v"}

\* A turn of the "dialogue" list of a record: a dict (its items, in order) or something else.
DictTurn(items) == [isdict |-> TRUE, items |-> items]
NonDictTurn     == [isdict |-> FALSE, items |-> <<>>]

\* A line of a file: blank, not JSON, or a JSON record with a "dialogue" list.
BlankLine      == [kind |-> "blank", dialogue |-> <<>>]
BadLine        == [kind |-> "bad",   dialogue |-> <<>>]
RecordLine(rd) == [kind |-> "json",  dialogue |-> rd]

Min(a, b) == IF a <= b THEN a ELSE b

SeqsUpTo(S, n) == UNION {[1..k -> S] : k \in 0..n}

----------------------------------------------------------------------------
(* The corpora a run is started on *)

\* One-line corpora: every dialogue of up to MaxTurns single-key turns.
RichDialogues == SeqsUpTo({DictTurn(<<<<s, t>>>>) : s \in Speakers, t \in Texts}, MaxTurns)

\* A dialogue one turn longer than the default max_utterances; only "A" speaks twice.
LongSpeakers == <<"A", "B", "A", "C", "D", "E", "F", "G", "H", "I", "J", "K", "L", "M", "N", "O", "P">>
LongDialogue == [i \in 1..Len(LongSpeakers) |->
                    DictTurn(<<<<LongSpeakers[i], IF i = 1 THEN "u" ELSE "v">>>>)]

\* The dialogues of four turns in which two speakers alternate: each has two utterances.
AlternatingDialogues ==
    {[i \in 1..4 |-> DictTurn(<<<<IF i % 2 = 1 THEN a ELSE b, t[i]>>>>)] :
        a \in Speakers, b \in Speakers, t \in [1..4 -> Texts]}

OneLineCorpora ==
    {<< <<RecordLine(d)>> >> : d \in RichDialogues \cup AlternatingDialogues \cup {LongDialogue}}

\* Several-line corpora: blank lines, malformed lines, a record too short to keep
\* (its second turn is no dict) and a record of four utterances in which "A" says "u"
\* twice (its third turn has two keys).
BaseDialogue == <<DictTurn(<<<<"A", "u">>>>), NonDictTurn, DictTurn(<<<<"B", "v">>, <<"A", "u">>>>),
                  DictTurn(<<<<"A", "v">>>>)>>
SmallLines == {BlankLine, BadLine, RecordLine(SubSeq(BaseDialogue, 1, 2)), RecordLine(BaseDialogue)}

\* The ways to cut the line sequence s into nf consecutive files; only a corpus of
\* one file has an empty file.
Splits(s, nf) ==
    IF nf = 0 THEN (IF s = <<>> THEN {<<>>} ELSE {})
    ELSE LET Cuts == {c \in [0..nf -> 0..Len(s)] :
                        /\ c[0] = 0
                        /\ c[nf] = Len(s)
                        /\ \A i \in 1..nf : c[i-1] < c[i] \/ nf = 1}
         IN {[i \in 1..nf |-> SubSeq(s, c[i-1] + 1, c[i])] : c \in Cuts}

SeveralLineCorpora ==
    UNION {Splits(s, nf) : s \in SeqsUpTo(SmallLines, MaxLines), nf \in 0..MaxFiles}

Corpora == OneLineCorpora \cup SeveralLineCorpora

----------------------------------------------------------------------------
(* Helpers shared by the two notebooks *)

\* json.loads(line): a JSONDecodeError unless the line is a JSON record.
JsonParses(line) == line.kind = "json"

\* The (speaker, utterance) pairs of the dict turns, in order; other turns are dropped.
RECURSIVE ExtractDialogue(_)
ExtractDialogue(raw) ==
    IF raw = <<>> THEN <<>>
    ELSE (IF Head(raw).isdict THEN Head(raw).items ELSE <<>>) \o ExtractDialogue(Tail(raw))

\* Mutant of KeepDialogue: the comparison is strict.
KeepDialogueStrict(d) == Len(d) > MinDialogueLen

\* if len(dialogue) >= 2
KeepDialogue(d) == Len(d) >= MinDialogueLen

\* dialogue[:max_utterances]
Truncate(d, m) == SubSeq(d, 1, Min(Len(d), m))

\* The outcomes of random.sample(range(n), k): k distinct positions, in any order.
Samples(n, k) == {s \in [1..k -> 1..n] : \A i, j \in 1..k : i /= j => s[i] /= s[j]}

\* The outcomes of random.shuffle on a list of n elements: position i receives element p[i].
Perms(n) == Samples(n, n)
ApplyShuffle(list, p) == [i \in 1..Len(list) |-> list[p[i]]]

\* [idx for idx, (spk, _) in enumerate(dialogue) if spk == speaker]
RECURSIVE IndicesOf(_, _, _)
IndicesOf(d, spk, from) ==
    IF from > Len(d) THEN <<>>
    ELSE (IF d[from][1] = spk THEN <<from>> ELSE <<>>) \o IndicesOf(d, spk, from + 1)

UtterancesAt(d, idxs) == [i \in 1..Len(idxs) |-> d[idxs[i]][2]]

HasMoreLines == fi <= Len(corpus) /\ li < Len(corpus[fi])
CurLine == corpus[fi][li + 1]

\* for file in ...: the current file is exhausted, go on with the next one.
NextFile ==
    /\ pc = "load"
    /\ fi <= Len(corpus)
    /\ li = Len(corpus[fi])
    /\ fi' = fi + 1
    /\ li' = 0
    /\ UNCHANGED <<inputs, otherVars, infVars, pc, all_dialogues, warnings, htVars, lcdVars>>

----------------------------------------------------------------------------
(* HT_in_final.ipynb: DialogueCoherenceDataset.__init__ *)

\* Mutant of ContinueAfterWarning: the try statement encloses the loop over the lines,
\* so that a line that does not parse ends the reading of its file.
AbandonFileAfterWarning == li' = Len(corpus[fi])

\* After the except clause the for loop goes on with the next line (both notebooks).
ContinueAfterWarning == li' = li + 1

\* line = line.strip(); if not line: continue
HTSkipBlank ==
    /\ program = "HT" /\ pc = "load" /\ HasMoreLines
    /\ CurLine.kind = "blank"
    /\ li' = li + 1
    /\ UNCHANGED <<inputs, otherVars, infVars, pc, fi, all_dialogues, warnings, htVars, lcdVars>>

\* try: obj = json.loads(line) ... if len(dialogue) >= 2: all_dialogues.append(dialogue[:max_utterances])
HTLoadLine ==
    /\ program = "HT" /\ pc = "load" /\ HasMoreLines
    /\ CurLine.kind /= "blank"
    /\ JsonParses(CurLine)
    /\ LET dialogue == ExtractDialogue(CurLine.dialogue)
       IN all_dialogues' = IF KeepDialogue(dialogue)
                             THEN Append(all_dialogues, Truncate(dialogue, max_utterances))
                             ELSE all_dialogues
    /\ li' = li + 1
    /\ UNCHANGED <<inputs, otherVars, infVars, pc, fi, warnings, htVars, lcdVars>>

\* except json.JSONDecodeError: print("Warning: could not parse line in {file}")
HTWarnLine ==
    /\ program = "HT" /\ pc = "load" /\ HasMoreLines
    /\ CurLine.kind /= "blank"
    /\ ~JsonParses(CurLine)
    /\ warnings' = Append(warnings, fi)
    /\ ContinueAfterWarning
    /\ UNCHANGED <<inputs, otherVars, infVars, pc, fi, all_dialogues, htVars, lcdVars>>

\* Mutant of HTEndLoad: the check for an empty all_dialogues is missing.
HTEndLoadUnchecked ==
    /\ program = "HT" /\ pc = "load"
    /\ fi > Len(corpus)
    /\ pc' = "build"
    /\ UNCHANGED <<inputs, otherVars, infVars, loadVars, htVars, lcdVars>>

\* if not all_dialogues: raise ValueError(...) ; otherwise the second loop starts
HTEndLoad ==
    /\ program = "HT" /\ pc = "load"
    /\ fi > Len(corpus)
    /\ pc' = IF all_dialogues = <<>> THEN "raised" ELSE "build"
    /\ UNCHANGED <<inputs, otherVars, infVars, loadVars, htVars, lcdVars>>

\* list({spk for spk, _ in original_dialogue}), as a set: its order is not defined
SpeakersOf(d) == {d[i][1] : i \in 1..Len(d)}

\* [spk for spk in speakers if sum(1 for s, _ in original_dialogue if s == spk) > 1]
ValidSpeakers(d) == {spk \in SpeakersOf(d) : Len(IndicesOf(d, spk, 1)) > 1}

\* if not speakers or len(speakers) < 2: continue ; if not valid_speakers: continue
CanPermute(d) == Cardinality(SpeakersOf(d)) >= 2 /\ ValidSpeakers(d) /= {}

\* One pass of the while loop body: randint, sample, copy, shuffle, write back.
\* selected is the sample, p the shuffle of the selected utterances.
ShuffleSubset(us, selected, p) ==
    LET utts_to_shuffle == ApplyShuffle([i \in 1..Len(selected) |-> us[selected[i]]], p)
    IN [pos \in 1..Len(us) |->
          IF \E idx \in 1..Len(selected) : selected[idx] = pos
            THEN utts_to_shuffle[CHOOSE idx \in 1..Len(selected) : selected[idx] = pos]
            ELSE us[pos]]

\* Mutant of ListNe: the lists compared by identity (is not), which a copy always passes.
ListNeByIdentity(a, b) == TRUE

\* Python's != on two lists (if shuffled_utts != utts, if neg_dialogue != original_dialogue)
ListNe(a, b) == a /= b

\* Mutant of RebuildNegative: neg_dialogue[pos] is written instead of neg_dialogue[orig_idx].
RebuildNegativeAtPos(original, idxs, spk, sh) ==
    [i \in 1..Len(original) |-> IF i <= Len(idxs) THEN <<spk, sh[i]>> ELSE original[i]]

\* neg_dialogue = original_dialogue.copy(); neg_dialogue[orig_idx] = (target_spk, shuffled_utts[pos])
RebuildNegative(original, idxs, spk, sh) ==
    [i \in 1..Len(original) |->
        IF \E pos \in 1..Len(idxs) : idxs[pos] = i
          THEN <<spk, sh[CHOOSE pos \in 1..Len(idxs) : idxs[pos] = i]>>
          ELSE original[i]]

HTIdleLocals ==
    /\ target_spk' = ""
    /\ indices' = <<>>
    /\ utts' = <<>>
    /\ attempts' = 0

\* for original_dialogue in all_dialogues: append it with label 1, then either
\* continue (no second speaker, no speaker with two utterances) or pick the target
\* speaker and enter the while loop.
HTBeginDialogue ==
    /\ program = "HT" /\ pc = "build"
    /\ di <= Len(all_dialogues)
    /\ LET original_dialogue == all_dialogues[di] IN
        /\ dialogues' = Append(dialogues, original_dialogue)
        /\ labels' = Append(labels, 1)
        /\ srcs' = Append(srcs, [idx |-> di, target |-> ""])
        /\ IF CanPermute(original_dialogue)
             THEN \E spk \in ValidSpeakers(original_dialogue) :
                    /\ target_spk' = spk
                    /\ indices' = IndicesOf(original_dialogue, spk, 1)
                    /\ utts' = UtterancesAt(original_dialogue, IndicesOf(original_dialogue, spk, 1))
                    /\ attempts' = 0
                    /\ pc' = "shuffle"
                    /\ di' = di
             ELSE /\ HTIdleLocals
                  /\ pc' = "build"
                  /\ di' = di + 1
    /\ UNCHANGED <<inputs, otherVars, infVars, loadVars, lcdVars>>

\* Mutant of LoopContinues: the loop gives up one attempt early.
LoopContinuesShort(a) == a < MaxAttempts - 1

\* while attempts < max_attempts
LoopContinues(a) == a < MaxAttempts

\* an attempt whose shuffled list equals utts; attempts += 1
HTAttemptFails ==
    /\ program = "HT" /\ pc = "shuffle"
    /\ LoopContinues(attempts)
    /\ \E num_to_shuffle \in 2..Len(utts) :
         \E selected \in Samples(Len(utts), num_to_shuffle) :
           \E p \in Perms(num_to_shuffle) :
             ~ListNe(ShuffleSubset(utts, selected, p), utts)
    /\ attempts' = attempts + 1
    /\ UNCHANGED <<inputs, otherVars, infVars, loadVars, pc, di, dialogues, labels, srcs, target_spk, indices, utts, lcdVars>>

\* Mutant of HTAttemptSucceeds: the negative is appended inside the loop and the break
\* is missing, so that the loop goes on and may append again.
HTAttemptSucceedsNoBreak ==
    /\ program = "HT" /\ pc = "shuffle"
    /\ LoopContinues(attempts)
    /\ \E num_to_shuffle \in 2..Len(utts) :
         \E selected \in Samples(Len(utts), num_to_shuffle) :
           \E p \in Perms(num_to_shuffle) :
             LET shuffled_utts == ShuffleSubset(utts, selected, p)
                 original_dialogue == all_dialogues[di]
                 neg_dialogue == RebuildNegative(original_dialogue, indices, target_spk, shuffled_utts)
             IN /\ ListNe(shuffled_utts, utts)
                /\ dialogues' = Append(dialogues, neg_dialogue)
                /\ labels' = Append(labels, 0)
                /\ srcs' = Append(srcs, [idx |-> di, target |-> target_spk])
    /\ attempts' = attempts + 1
    /\ UNCHANGED <<inputs, otherVars, infVars, loadVars, pc, di, target_spk, indices, utts, lcdVars>>

\* Mutant of ListCopy: no copy is made, the new name is bound to the same list object.
ListAlias(objs, id) == [objs |-> objs, ref |-> id]

\* list.copy() on the list object number id of objs: a new list object with the same items
ListCopy(objs, id) == [objs |-> Append(objs, objs[id]), ref |-> Len(objs) + 1]

\* an attempt whose shuffled list differs: negative_found = True; break; the negative
\* is rebuilt and appended with label 0 if it differs from the original.  The list
\* objects are those of all_dialogues, in order; the label-1 entry of self.dialogues
\* is the object original_dialogue itself, neg_dialogue is the object made by copy().
HTAttemptSucceeds ==
    /\ program = "HT" /\ pc = "shuffle"
    /\ LoopContinues(attempts)
    /\ \E num_to_shuffle \in 2..Len(utts) :
         \E selected \in Samples(Len(utts), num_to_shuffle) :
           \E p \in Perms(num_to_shuffle) :
             LET shuffled_utts == ShuffleSubset(utts, selected, p)
                 copied == ListCopy(all_dialogues, di)
                 written == [copied.objs EXCEPT ![copied.ref] =
                                RebuildNegative(copied.objs[copied.ref], indices, target_spk, shuffled_utts)]
                 neg_dialogue == written[copied.ref]
                 original_dialogue == written[di]
                 stored == [e \in 1..Len(dialogues) |->
                              IF srcs[e].target = "" /\ srcs[e].idx = di
                                THEN original_dialogue ELSE dialogues[e]]
             IN /\ ListNe(shuffled_utts, utts)
                /\ all_dialogues' = SubSeq(written, 1, Len(all_dialogues))
                /\ IF ListNe(neg_dialogue, original_dialogue)
                     THEN /\ dialogues' = Append(stored, neg_dialogue)
                          /\ labels' = Append(labels, 0)
                          /\ srcs' = Append(srcs, [idx |-> di, target |-> target_spk])
                     ELSE /\ dialogues' = stored
                          /\ UNCHANGED <<labels, srcs>>
    /\ HTIdleLocals
    /\ pc' = "build"
    /\ di' = di + 1
    /\ UNCHANGED <<inputs, otherVars, infVars, fi, li, warnings, lcdVars>>

\* the loop ends without a break: if not negative_found: continue
HTGiveUp ==
    /\ program = "HT" /\ pc = "shuffle"
    /\ ~LoopContinues(attempts)
    /\ HTIdleLocals
    /\ pc' = "build"
    /\ di' = di + 1
    /\ UNCHANGED <<inputs, otherVars, infVars, loadVars, dialogues, labels, srcs, lcdVars>>

\* the second loop is over: the dataset is constructed
HTDone ==
    /\ program = "HT" /\ pc = "build"
    /\ di > Len(all_dialogues)
    /\ pc' = "done"
    /\ UNCHANGED <<inputs, otherVars, infVars, loadVars, htVars, lcdVars>>

\* sum(train_dataset.labels)
RECURSIVE SumRange(_, _, _)
SumRange(l, a, b) ==
    IF a > b THEN 0
    ELSE IF a = b THEN l[a]
    ELSE SumRange(l, a, (a + b) \div 2) + SumRange(l, (a + b) \div 2 + 1, b)

SumLabels(l) == SumRange(l, 1, Len(l))

\* Mutant of PosWeight: the quotient is taken the other way round.
PosWeightInverted(l) == <<SumLabels(l), Len(l) - SumLabels(l)>>

\* n_negative / n_positive, as the fraction <<n_negative, n_positive>>
PosWeight(l) == <<Len(l) - SumLabels(l), SumLabels(l)>>

\* The training cell, once train_dataset is constructed: n_positive, n_negative,
\* pos_weight and train_criterion = BCEWithLogitsLoss(pos_weight=pos_weight)
HTPosWeight ==
    /\ program = "HT" /\ pc = "done"
    /\ n_positive' = SumLabels(labels)
    /\ n_negative' = Len(labels) - SumLabels(labels)
    /\ pos_weight' = PosWeight(labels)
    /\ train_criterion' = PosWeight(labels)
    /\ pc' = "criterion"
    /\ UNCHANGED <<inputs, lossVars, featVars, batchVars, twiceVars, poolVars, epochVars,
                   loopVars, infVars, loadVars, htVars, lcdVars, val_labels, val_n_positive,
                   val_n_negative, val_pos_weight, val_criterion>>

\* The labels of the validation datasets: every loaded dialogue has label 1 and at
\* most one negative with label 0.
ValLabelChoices == {<<1>>, <<1, 0>>, <<1, 1, 0>>}

\* Mutant of ValCriterionWeight: val_criterion is given val_pos_weight.
ValCriterionOwnWeight(train_weight, val_weight) == val_weight

\* val_criterion = torch.nn.BCEWithLogitsLoss(pos_weight=pos_weight)
ValCriterionWeight(train_weight, val_weight) == train_weight

\* val_n_positive, val_n_negative, val_pos_weight and val_criterion, val_dataset having
\* been constructed
HTValCriterion ==
    /\ program = "HT" /\ pc = "criterion"
    /\ \E ls \in ValLabelChoices :
         /\ val_labels' = ls
         /\ val_n_positive' = SumLabels(ls)
         /\ val_n_negative' = Len(ls) - SumLabels(ls)
         /\ val_pos_weight' = PosWeight(ls)
         /\ val_criterion' = ValCriterionWeight(pos_weight, PosWeight(ls))
    /\ pc' = "criteria"
    /\ UNCHANGED <<inputs, wtVars, lossVars, featVars, batchVars, twiceVars, poolVars, epochVars,
                   loopVars, infVars, loadVars, htVars, lcdVars, train_criterion>>

NextHT ==
    \/ NextFile
    \/ HTSkipBlank
    \/ HTLoadLine
    \/ HTWarnLine
    \/ HTEndLoad
    \/ HTBeginDialogue
    \/ HTAttemptFails
    \/ HTAttemptSucceeds
    \/ HTGiveUp
    \/ HTDone
    \/ HTPosWeight
    \/ HTValCriterion

----------------------------------------------------------------------------
(* LCD_in_final.ipynb: SentenceEncoder, build_pairwise_features, LCD_scorer and
   compute_dialogue_pred.  Embeddings, parameters and scores are integers; a score is
   kept in units of 1/ScoreUnit so that the scaling of dropout stays exact. *)

\* SentenceEncoder.forward on one utterance: a vector of EmbDim components.
Embed(text) == [k \in 1..EmbDim |-> IF text = "u" THEN 1 ELSE 2]

\* Mutant of build_pairwise_features: s and t are concatenated in the other order.
build_pairwise_features_swapped(a, b) ==
    b \o a \o [k \in 1..Len(a) |-> a[k] - b[k]]
      \o [k \in 1..Len(a) |-> IF a[k] - b[k] < 0 THEN b[k] - a[k] ELSE a[k] - b[k]]
      \o [k \in 1..Len(a) |-> a[k] * b[k]]

\* diff = s - t; abs_diff = torch.abs(s - t); dot = s * t; torch.cat([s, t, diff, abs_diff, dot])
build_pairwise_features(a, b) ==
    a \o b \o [k \in 1..Len(a) |-> a[k] - b[k]]
      \o [k \in 1..Len(a) |-> IF a[k] - b[k] < 0 THEN b[k] - a[k] ELSE a[k] - b[k]]
      \o [k \in 1..Len(a) |-> a[k] * b[k]]

\* nn.ReLU
Relu(x) == IF x > 0 THEN x ELSE 0

\* nn.Linear(input_dim, hidden_dim) with one hidden unit: the weighted sum of the inputs
Dot(w, x) == SumRange([k \in 1..Len(x) |-> w[k] * x[k]], 1, Len(x))

\* nn.Dropout in training mode zeroes the inputs in dropped and scales the others by
\* DropoutScale/DropoutKeep; the vector returned is in units of 1/DropoutKeep.
Dropout(x, dropped) == [k \in 1..Len(x) |-> IF k \in dropped THEN 0 ELSE DropoutScale * x[k]]

\* The scores LCD_scorer.forward can return on the features x with the parameters w,
\* in units of 1/ScoreUnit.  In eval mode the two Dropout layers are the identity.
LCD_scorer(md, w, x) ==
    IF md = "eval"
      THEN {ScoreUnit * (w.w2 * Relu(Dot(w.w1, x) + w.b1) + w.b2)}
      ELSE {w.w2 * (IF hidden_dropped THEN 0
                    ELSE DropoutScale * Relu(Dot(w.w1, Dropout(x, dropped)) + DropoutKeep * w.b1))
              + ScoreUnit * w.b2 :
                dropped \in SUBSET (1..Len(x)), hidden_dropped \in BOOLEAN}

\* Parameters of a scorer that looks at the first component of s - t only: the
\* weight of that input is dw, the weight of the hidden unit is w2, the biases are 0.
ScorerParams(dw, w2) ==
    [w1 |-> [k \in 1..5 * EmbDim |-> IF k = 2 * EmbDim + 1 THEN dw ELSE 0],
     b1 |-> 0, w2 |-> w2, b2 |-> 0]

\* Scorers: one that always returns 0, -relu(s - t), relu(s - t) and relu(t - s).
ZeroScorer == ScorerParams(0, 0)
DownScorer == ScorerParams(1, -1)
UpScorer   == ScorerParams(1, 1)
BackScorer == ScorerParams(-1, 1)

\* The parameters of (scorer_fwd, scorer_bwd) a checkpoint may hold: all scores 0; a
\* negative forward score cancelled by the backward score; a negative forward score
\* on some pairs and a positive backward score on others.
ScorerChoices ==
    {[fwd |-> ZeroScorer, bwd |-> ZeroScorer],
     [fwd |-> DownScorer, bwd |-> BackScorer],
     [fwd |-> DownScorer, bwd |-> UpScorer]}

\* Mutant of IsNegative: a score of 0 counts as negative.
IsNotPositive(score) == score <= 0

\* if score < 0
IsNegative(score) == score < 0

\* The outcomes of `score < 0` for the pair (i, i+1) of d, score being
\* (score_fwd + score_bwd) / 2: its sign is the sign of the sum.
PairIsNegative(md, w, d, i) ==
    {IsNegative(f + b) :
        f \in LCD_scorer(md, w.fwd, build_pairwise_features(Embed(d[i][2]), Embed(d[i + 1][2]))),
        b \in LCD_scorer(md, w.bwd, build_pairwise_features(Embed(d[i + 1][2]), Embed(d[i][2])))}

\* compute_dialogue_pred from the pair (i, i+1) on: the label returned and the number of
\* pairs scored, for every outcome of the scorers.
RECURSIVE compute_dialogue_pred(_, _, _, _)
compute_dialogue_pred(md, w, d, i) ==
    IF i > Len(d) - 1 THEN {[label |-> 1, scored |-> i - 1]}
    ELSE (IF TRUE \in PairIsNegative(md, w, d, i) THEN {[label |-> 0, scored |-> i]} ELSE {})
         \cup (IF FALSE \in PairIsNegative(md, w, d, i)
                 THEN compute_dialogue_pred(md, w, d, i + 1) ELSE {})

\* for perm in permuted: compute_dialogue_pred(perm, ...), for every outcome of the scorers
RECURSIVE PredictEach(_, _, _)
PredictEach(md, w, ps) ==
    IF ps = <<>> THEN {<<>>}
    ELSE {<<r>> \o rest : r \in compute_dialogue_pred(md, w, Head(ps), 1),
                          rest \in PredictEach(md, w, Tail(ps))}

----------------------------------------------------------------------------
(* LCD_in_final.ipynb: load_dialogues_with_speakers *)

\* try: data = json.loads(line) ... if len(dialogue) >= 2: all_dialogues.append(dialogue)
LCDLoadLine ==
    /\ program = "LCD" /\ pc = "load" /\ HasMoreLines
    /\ JsonParses(CurLine)
    /\ LET dialogue == ExtractDialogue(CurLine.dialogue)
       IN all_dialogues' = IF KeepDialogue(dialogue)
                             THEN Append(all_dialogues, dialogue)
                             ELSE all_dialogues
    /\ li' = li + 1
    /\ UNCHANGED <<inputs, otherVars, infVars, pc, fi, warnings, htVars, lcdVars>>

\* except json.JSONDecodeError: print("Warning: could not parse line in {filename}")
\* (a blank line is not stripped away here: json.loads rejects it too)
LCDWarnLine ==
    /\ program = "LCD" /\ pc = "load" /\ HasMoreLines
    /\ ~JsonParses(CurLine)
    /\ warnings' = Append(warnings, fi)
    /\ ContinueAfterWarning
    /\ UNCHANGED <<inputs, otherVars, infVars, pc, fi, all_dialogues, htVars, lcdVars>>

\* Mutant of SetEvalMode: the three calls of eval() are missing.
KeepMode == mode' = mode

\* encoder.eval(); scorer_fwd.eval(); scorer_bwd.eval()
SetEvalMode == mode' = "eval"

\* return all_dialogues ; the parameters of the models are loaded from the checkpoint,
\* test_experiment is run on the loaded dialogues and puts the three models in eval mode
LCDEndLoad ==
    /\ program = "LCD" /\ pc = "load"
    /\ fi > Len(corpus)
    /\ weights' \in ScorerChoices
    /\ SetEvalMode
    /\ pc' = "test"
    /\ UNCHANGED <<inputs, otherVars, pred, scored, loadVars, htVars, lcdVars>>

----------------------------------------------------------------------------
(* LCD_in_final.ipynb: test_experiment and permute_dialogue *)

\* other_turns.append((idx, turn)) for the turns of the other speakers
RECURSIVE OtherTurns(_, _, _)
OtherTurns(d, spk, from) ==
    IF from > Len(d) THEN <<>>
    ELSE (IF d[from][1] /= spk THEN <<<<from, d[from]>>>> ELSE <<>>) \o OtherTurns(d, spk, from + 1)

\* for orig, new in zip(permute_sub_idx, shuffled): new_speaker_utterances[orig] = new
WriteBack(us, sub, sh) ==
    [pos \in 1..Len(us) |->
        IF \E i \in 1..Len(sub) : sub[i] = pos
          THEN sh[CHOOSE i \in 1..Len(sub) : sub[i] = pos]
          ELSE us[pos]]

\* The reconstruction loop from index idx on: the target speaker's turns take the
\* new utterances in order, every other turn is other_turns.pop(0), which raises
\* IndexError on an empty list (ok = FALSE).
RECURSIVE Reconstruct(_, _, _, _, _, _)
Reconstruct(d, spk, new_utts, ot, idx, speaker_ptr) ==
    IF idx > Len(d) THEN [ok |-> TRUE, permuted |-> <<>>, rest |-> ot]
    ELSE IF d[idx][1] = spk
      THEN LET r == Reconstruct(d, spk, new_utts, ot, idx + 1, speaker_ptr + 1)
           IN [ok |-> r.ok, permuted |-> <<<<spk, new_utts[speaker_ptr]>>>> \o r.permuted, rest |-> r.rest]
      ELSE IF ot = <<>>
        THEN [ok |-> FALSE, permuted |-> <<>>, rest |-> <<>>]
        ELSE LET r == Reconstruct(d, spk, new_utts, Tail(ot), idx + 1, speaker_ptr)
             IN [ok |-> r.ok, permuted |-> <<Head(ot)[2]>> \o r.permuted, rest |-> r.rest]

\* if shuffled != to_shuffle: break
ShuffledDiffers(sh, orig) == sh /= orig

LCDIdleLocals ==
    /\ choice' = ""
    /\ indices' = <<>>
    /\ utts' = <<>>
    /\ other_turns' = <<>>
    /\ permutations' = <<>>
    /\ permute_sub_idx' = <<>>
    /\ to_shuffle' = <<>>
    /\ shuffled' = <<>>

\* if len(dialogue) < 3: continue
TESkipShort ==
    /\ program = "LCD" /\ pc = "test"
    /\ di <= Len(all_dialogues)
    /\ Len(all_dialogues[di]) < MinTestLen
    /\ di' = di + 1
    /\ UNCHANGED <<inputs, otherVars, infVars, loadVars, pc, dialogues, labels, srcs, target_spk, indices, utts,
                   attempts, lcdVars>>

\* score = compute_dialogue_pred(dialogue, ...); true.append(1); pred.append(score);
\* choice = random.choice(["A", "B"]); permute_dialogue(dialogue, choice, ...) up to the
\* start of its for loop
TEBeginDialogue ==
    /\ program = "LCD" /\ pc = "test"
    /\ di <= Len(all_dialogues)
    /\ Len(all_dialogues[di]) >= MinTestLen
    /\ LET dialogue == all_dialogues[di] IN
        /\ \E r \in compute_dialogue_pred(mode, weights, dialogue, 1) :
             /\ pred' = Append(pred, r.label)
             /\ scored' = Append(scored, r.scored)
        /\ true' = Append(true, 1)
        /\ evaluated' = Append(evaluated, [dialogue |-> dialogue, source |-> dialogue, target |-> ""])
        /\ \E c \in {"A", "B"} :
             /\ choice' = c
             /\ indices' = IndicesOf(dialogue, c, 1)
             /\ utts' = UtterancesAt(dialogue, IndicesOf(dialogue, c, 1))
             /\ other_turns' = OtherTurns(dialogue, c, 1)
    /\ permutations' = <<>>
    /\ pc' = "pd_iter"
    /\ UNCHANGED <<inputs, otherVars, weights, mode, loadVars, di, dialogues, labels, srcs, target_spk, attempts,
                   permute_sub_idx, to_shuffle, shuffled>>

\* if len(speaker_indices) < 2: permutations.append(dialogue.copy()); continue
PDCopy ==
    /\ program = "LCD" /\ pc = "pd_iter"
    /\ Len(permutations) < num_permutations
    /\ Len(indices) < 2
    /\ permutations' = Append(permutations, all_dialogues[di])
    /\ UNCHANGED <<inputs, otherVars, infVars, loadVars, pc, htVars, true, evaluated, choice, other_turns,
                   permute_sub_idx, to_shuffle, shuffled>>

\* k = random.randint(2, n); permute_sub_idx = random.sample(range(n), k);
\* to_shuffle = [...]; shuffled = to_shuffle.copy()
PDChoose ==
    /\ program = "LCD" /\ pc = "pd_iter"
    /\ Len(permutations) < num_permutations
    /\ Len(indices) >= 2
    /\ \E k \in 2..Len(indices) :
         \E sub \in Samples(Len(indices), k) :
           /\ permute_sub_idx' = sub
           /\ to_shuffle' = [i \in 1..k |-> utts[sub[i]]]
           /\ shuffled' = [i \in 1..k |-> utts[sub[i]]]
    /\ pc' = "pd_shuffle"
    /\ UNCHANGED <<inputs, otherVars, infVars, loadVars, htVars, true, evaluated, choice, other_turns, permutations>>

\* while True: random.shuffle(shuffled) leaves the list as it was: the loop goes on
PDShuffleAgain ==
    /\ program = "LCD" /\ pc = "pd_shuffle"
    /\ \E p \in Perms(Len(shuffled)) :
         LET sh == ApplyShuffle(shuffled, p) IN
           /\ ~ShuffledDiffers(sh, to_shuffle)
           /\ shuffled' = sh
    /\ UNCHANGED <<inputs, otherVars, infVars, loadVars, pc, htVars, true, evaluated, choice, other_turns,
                   permutations, permute_sub_idx, to_shuffle>>

\* random.shuffle(shuffled) changes the list: break; new_speaker_utterances, the
\* reconstruction loop, permutations.append(permuted); an IndexError of
\* other_turns.pop(0) ends the program
PDShuffleRebuild ==
    /\ program = "LCD" /\ pc = "pd_shuffle"
    /\ \E p \in Perms(Len(shuffled)) :
         LET sh == ApplyShuffle(shuffled, p)
             new_speaker_utterances == WriteBack(utts, permute_sub_idx, sh)
             r == Reconstruct(all_dialogues[di], choice, new_speaker_utterances, other_turns, 1, 1)
         IN /\ ShuffledDiffers(sh, to_shuffle)
            /\ other_turns' = r.rest
            /\ IF r.ok
                 THEN /\ permutations' = Append(permutations, r.permuted)
                      /\ pc' = "pd_iter"
                 ELSE /\ permutations' = permutations
                      /\ pc' = "raised"
    \* the locals of the finished iteration are dead: the next iteration assigns them anew
    /\ permute_sub_idx' = <<>>
    /\ to_shuffle' = <<>>
    /\ shuffled' = <<>>
    /\ UNCHANGED <<inputs, otherVars, infVars, loadVars, htVars, true, evaluated, choice>>

\* return permutations; for perm in permuted: score2 = compute_dialogue_pred(perm, ...);
\* true.append(0); pred.append(score2) ; next dialogue
PDReturn ==
    /\ program = "LCD" /\ pc = "pd_iter"
    /\ Len(permutations) >= num_permutations
    /\ \E rs \in PredictEach(mode, weights, permutations) :
         /\ pred' = pred \o [i \in 1..Len(permutations) |-> rs[i].label]
         /\ scored' = scored \o [i \in 1..Len(permutations) |-> rs[i].scored]
    /\ true' = true \o [i \in 1..Len(permutations) |-> 0]
    /\ evaluated' = evaluated \o [i \in 1..Len(permutations) |->
                                    [dialogue |-> permutations[i], source |-> all_dialogues[di],
                                     target |-> choice]]
    /\ LCDIdleLocals
    /\ di' = di + 1
    /\ pc' = "test"
    /\ UNCHANGED <<inputs, otherVars, weights, mode, loadVars, dialogues, labels, srcs, target_spk, attempts>>

\* the loop over the dialogues is over
TEDone ==
    /\ program = "LCD" /\ pc = "test"
    /\ di > Len(all_dialogues)
    /\ pc' = "done"
    /\ UNCHANGED <<inputs, otherVars, infVars, loadVars, htVars, lcdVars>>

NextLCD ==
    \/ LCDLoadLine
    \/ LCDWarnLine
    \/ LCDEndLoad
    \/ TESkipShort
    \/ TEBeginDialogue
    \/ PDCopy
    \/ PDChoose
    \/ PDShuffleAgain
    \/ PDShuffleRebuild
    \/ PDReturn
    \/ TEDone

----------------------------------------------------------------------------
(* LCD_in_final.ipynb: bounded_margin_loss and build_pairwise_features, each called
   once on arguments drawn by Init *)

\* torch.clamp(x, min=0)
Clamp0(x) == IF x < 0 THEN 0 ELSE x

\* The default arguments of bounded_margin_loss, the only ones the notebook uses.
DefaultLossParams ==
    [margin |-> 10, upper_bound |-> 10, lower_bound |-> 0, lambda_upper |-> 1, lambda_lower |-> 1]

\* Other arguments: a smaller margin, a negative lower bound, unequal penalty weights.
OtherLossParams ==
    [margin |-> 1, upper_bound |-> 2, lower_bound |-> -1, lambda_upper |-> 2, lambda_lower |-> 3]

LossParamChoices == {DefaultLossParams, OtherLossParams}

\* The scores tried with the arguments p.
ScoreRange(p) == (p.lower_bound - ScoreSpread)..(p.upper_bound + ScoreSpread)

\* Mutant of bounded_margin_loss: the penalty of the upper bound is missing.
bounded_margin_loss_no_upper(sp, sn, p) ==
    Clamp0(p.margin - (sp - sn)) + p.lambda_lower * Clamp0(p.lower_bound - sp)

\* Mutant of bounded_margin_loss: lower_penalty clamps score_pos - lower_bound.
bounded_margin_loss_lower_flipped(sp, sn, p) ==
    Clamp0(p.margin - (sp - sn))
      + p.lambda_upper * Clamp0(sp - p.upper_bound)
      + p.lambda_lower * Clamp0(sp - p.lower_bound)

\* margin_loss + lambda_upper * upper_penalty + lambda_lower * lower_penalty
bounded_margin_loss(sp, sn, p) ==
    Clamp0(p.margin - (sp - sn))
      + p.lambda_upper * Clamp0(sp - p.upper_bound)
      + p.lambda_lower * Clamp0(p.lower_bound - sp)

\* loss = bounded_margin_loss(score_pos, score_neg, ...)
CallBoundedMarginLoss ==
    /\ program = "bounded_margin_loss" /\ pc = "call"
    /\ loss' = bounded_margin_loss(score_pos, score_neg, loss_params)
    /\ pc' = "returned"
    /\ UNCHANGED <<inputs, loadVars, htVars, lcdVars, infVars, wtVars, loss_params, score_pos,
                   score_neg, featVars, moreVars, epochVars, loopVars>>

\* features = build_pairwise_features(s, t)
CallBuildPairwiseFeatures ==
    /\ program = "build_pairwise_features" /\ pc = "call"
    /\ features' = build_pairwise_features(emb_s, emb_t)
    /\ pc' = "returned"
    /\ UNCHANGED <<inputs, loadVars, htVars, lcdVars, infVars, wtVars, lossVars, emb_s, emb_t,
                   epochVars, loopVars, moreVars>>


----------------------------------------------------------------------------
(* LCD_in_final.ipynb: train_one_epoch and eval_one_epoch, one call on the dialogues
   drawn by Init.  In training mode a score depends on the dropout masks and on the
   parameters, which change with every optimizer step: a score is a choice among
   EpochScores.  total_loss is kept in units of 1/LossUnit, which every pair_count
   divides. *)

\* The dialogues of the training and validation data: 2 to MaxEpochTurns utterances.
EpochDialogues ==
    UNION {[1..n -> {<<spk, "u">> : spk \in Speakers}] : n \in MinDialogueLen..MaxEpochTurns}

\* A dialogue below the length threshold, one of a single speaker, one of two speakers.
FirstDialogues == {<<<<"A", "u">>, <<"B", "u">>>>,
                   <<<<"A", "u">>, <<"A", "u">>, <<"A", "u">>>>,
                   <<<<"A", "u">>, <<"B", "u">>, <<"A", "u">>>>}

\* The lists of dialogues an epoch is run on.
EpochData == {<<d>> : d \in EpochDialogues}
                \cup {<<d1, d2>> : d1 \in FirstDialogues, d2 \in EpochDialogues}

\* The averaged scores a pair can get.
EpochScores == {DefaultLossParams.lower_bound, DefaultLossParams.upper_bound}

RECURSIVE Factorial(_)
Factorial(n) == IF n <= 1 THEN 1 ELSE n * Factorial(n - 1)

LossUnit == Factorial(MaxEpochTurns - 1)

\* Mutant of Candidates: the condition j != i + 1 is missing.
CandidatesWithNext(d, i) == {j \in 1..Len(d) : d[j][1] /= d[i][1]}

\* candidates = [j for j in range(n) if j != i + 1 and speakers[j] != current_speaker]
Candidates(d, i) == {j \in 1..Len(d) : j /= i + 1 /\ d[j][1] /= d[i][1]}

\* if len(dialogue) < 3: continue
EpSkipShort ==
    /\ program \in {"train_one_epoch", "eval_one_epoch"} /\ pc = "ep_dialogue"
    /\ ei <= Len(data)
    /\ Len(data[ei]) < MinTestLen
    /\ ei' = ei + 1
    /\ UNCHANGED <<inputs, loadVars, htVars, lcdVars, infVars, wtVars, lossVars, featVars, moreVars,
                   loopVars, pc, data, pos_i, dialogue_loss, pair_count, total_loss, correct,
                   total, opt_steps, sampled, accuracy>>

\* the embeddings are computed; dialogue_loss = 0; pair_count = 0; the inner loop starts
EpBeginDialogue ==
    /\ program \in {"train_one_epoch", "eval_one_epoch"} /\ pc = "ep_dialogue"
    /\ ei <= Len(data)
    /\ Len(data[ei]) >= MinTestLen
    /\ dialogue_loss' = 0
    /\ pair_count' = 0
    /\ pos_i' = 1
    /\ pc' = "ep_pair"
    /\ UNCHANGED <<inputs, loadVars, htVars, lcdVars, infVars, wtVars, lossVars, featVars, moreVars,
                   loopVars, data, ei, total_loss, correct, total, opt_steps, sampled, accuracy>>

\* if not candidates: continue
EpSkipPosition ==
    /\ program \in {"train_one_epoch", "eval_one_epoch"} /\ pc = "ep_pair"
    /\ pos_i <= Len(data[ei]) - 1
    /\ Candidates(data[ei], pos_i) = {}
    /\ pos_i' = pos_i + 1
    /\ UNCHANGED <<inputs, loadVars, htVars, lcdVars, infVars, wtVars, lossVars, featVars, moreVars,
                   loopVars, pc, data, ei, dialogue_loss, pair_count, total_loss, correct,
                   total, opt_steps, sampled, accuracy>>

\* neg_idx = random.choice(candidates); the four scores, their averages and the loss;
\* train_one_epoch: dialogue_loss += loss; pair_count += 1
\* eval_one_epoch: total_loss += loss.item(); correct += 1 if score_pos > score_neg; total += 1
EpScorePosition ==
    /\ program \in {"train_one_epoch", "eval_one_epoch"} /\ pc = "ep_pair"
    /\ pos_i <= Len(data[ei]) - 1
    /\ \E neg_idx \in Candidates(data[ei], pos_i), sp \in EpochScores, sn \in EpochScores :
         LET l == bounded_margin_loss(sp, sn, DefaultLossParams) IN
           /\ score_pos' = sp
           /\ score_neg' = sn
           /\ loss' = l
           /\ sampled' = Append(sampled, [dlg |-> ei, i |-> pos_i, neg_idx |-> neg_idx, loss |-> l,
                                           score_pos |-> sp, score_neg |-> sn])
           /\ IF program = "train_one_epoch"
                THEN /\ dialogue_loss' = dialogue_loss + l
                     /\ pair_count' = pair_count + 1
                     /\ UNCHANGED <<total_loss, correct, total>>
                ELSE /\ total_loss' = total_loss + LossUnit * l
                     /\ correct' = correct + (IF sp > sn THEN 1 ELSE 0)
                     /\ total' = total + 1
                     /\ UNCHANGED <<dialogue_loss, pair_count>>
    /\ pos_i' = pos_i + 1
    /\ UNCHANGED <<inputs, loadVars, htVars, lcdVars, infVars, wtVars, loss_params, featVars, moreVars,
                   loopVars, pc, data, ei, opt_steps, accuracy>>

\* Mutant of EpEndDialogue: total += 1 is outside `if pair_count > 0`.
EpEndDialogueCountsAll ==
    /\ program \in {"train_one_epoch", "eval_one_epoch"} /\ pc = "ep_pair"
    /\ pos_i > Len(data[ei]) - 1
    /\ IF program = "train_one_epoch" /\ pair_count > 0
         THEN /\ opt_steps' = opt_steps + 1
              /\ total_loss' = total_loss + (LossUnit * dialogue_loss) \div pair_count
              /\ correct' = correct + (IF score_pos > score_neg THEN 1 ELSE 0)
         ELSE UNCHANGED <<opt_steps, total_loss, correct>>
    /\ total' = IF program = "train_one_epoch" THEN total + 1 ELSE total
    /\ ei' = ei + 1
    /\ pc' = "ep_dialogue"
    /\ UNCHANGED <<inputs, loadVars, htVars, lcdVars, infVars, wtVars, lossVars, featVars, moreVars,
                   loopVars, data, pos_i, dialogue_loss, pair_count, sampled, accuracy>>

\* Mutant of EpEndDialogue: correct counts the dialogue when score_pos > score_neg at
\* the first position scored.
EpEndDialogueFirstPair ==
    /\ program \in {"train_one_epoch", "eval_one_epoch"} /\ pc = "ep_pair"
    /\ pos_i > Len(data[ei]) - 1
    /\ IF program = "train_one_epoch" /\ pair_count > 0
         THEN /\ opt_steps' = opt_steps + 1
              /\ total_loss' = total_loss + (LossUnit * dialogue_loss) \div pair_count
              /\ LET first == Head(SelectSeq(sampled, LAMBDA x : x.dlg = ei))
                 IN correct' = correct + (IF first.score_pos > first.score_neg THEN 1 ELSE 0)
              /\ total' = total + 1
         ELSE UNCHANGED <<opt_steps, total_loss, correct, total>>
    /\ ei' = ei + 1
    /\ pc' = "ep_dialogue"
    /\ UNCHANGED <<inputs, loadVars, htVars, lcdVars, infVars, wtVars, lossVars, featVars, moreVars,
                   loopVars, data, pos_i, dialogue_loss, pair_count, sampled, accuracy>>

\* the inner loop is over; train_one_epoch: if pair_count > 0: dialogue_loss /= pair_count,
\* backward, the two optimizer steps, total_loss += dialogue_loss.item(), correct += 1 if
\* score_pos > score_neg (the scores of the last position scored), total += 1
EpEndDialogue ==
    /\ program \in {"train_one_epoch", "eval_one_epoch"} /\ pc = "ep_pair"
    /\ pos_i > Len(data[ei]) - 1
    /\ IF program = "train_one_epoch" /\ pair_count > 0
         THEN /\ opt_steps' = opt_steps + 1
              /\ total_loss' = total_loss + (LossUnit * dialogue_loss) \div pair_count
              /\ correct' = correct + (IF score_pos > score_neg THEN 1 ELSE 0)
              /\ total' = total + 1
         ELSE UNCHANGED <<opt_steps, total_loss, correct, total>>
    /\ ei' = ei + 1
    /\ pc' = "ep_dialogue"
    /\ UNCHANGED <<inputs, loadVars, htVars, lcdVars, infVars, wtVars, lossVars, featVars, moreVars,
                   loopVars, data, pos_i, dialogue_loss, pair_count, sampled, accuracy>>

\* accuracy = correct / total if total > 0 else 0.0; return total_loss, accuracy
EpReturn ==
    /\ program \in {"train_one_epoch", "eval_one_epoch"} /\ pc = "ep_dialogue"
    /\ ei > Len(data)
    /\ accuracy' = IF total > 0 THEN <<correct, total>> ELSE <<0, 1>>
    /\ pc' = "ep_returned"
    /\ UNCHANGED <<inputs, loadVars, htVars, lcdVars, infVars, wtVars, lossVars, featVars, moreVars,
                   loopVars, data, ei, pos_i, dialogue_loss, pair_count, total_loss, correct,
                   total, opt_steps, sampled>>

NextEpoch ==
    \/ EpSkipShort
    \/ EpBeginDialogue
    \/ EpSkipPosition
    \/ EpScorePosition
    \/ EpEndDialogue
    \/ EpReturn

----------------------------------------------------------------------------
(* The training cells of the two notebooks and the cells that load the checkpoint.
   A training pass is the optimizer steps it takes, a validation pass the accuracy
   it returns; the parameters in memory are identified by the number of optimizer
   steps that made them. *)

\* No file "best_lcd_in.pt" / "best_HT_in" exists: nothing but torch.save creates it.
NoCheckpoint == -1

\* Mutant of Improves: the comparison is not strict.
ImprovesOrEquals(acc, best) == acc >= best

\* if val_acc > best_val_acc
Improves(acc, best) == acc > best

\* train_one_epoch: one optimizer step
LoopOptimizerStep ==
    /\ program \in {"LCD_training", "HT_training"} /\ pc = "loop_train"
    /\ opt_steps < MaxStepsPerEpoch
    /\ opt_steps' = opt_steps + 1
    /\ params' = params + 1
    /\ UNCHANGED <<inputs, loadVars, htVars, lcdVars, infVars, wtVars, lossVars, featVars, moreVars,
                   pc, data, ei, pos_i, dialogue_loss, pair_count, total_loss, correct, total,
                   sampled, accuracy, num_epochs, epoch, val_acc, best_val_acc, checkpoint,
                   val_hist, params_hist, saves>>

\* train_one_epoch returns.  In HT_in_final the dataset is not empty, so that the
\* dataloader has a batch and a step was taken; in LCD_in_final no dialogue may have
\* been scorable.
LoopTrainReturns ==
    /\ program \in {"LCD_training", "HT_training"} /\ pc = "loop_train"
    /\ program = "HT_training" => opt_steps >= 1
    /\ pc' = "loop_val"
    /\ UNCHANGED <<inputs, loadVars, htVars, lcdVars, infVars, wtVars, lossVars, featVars, moreVars,
                   epochVars, loopVars>>

\* val_loss, val_acc = eval_one_epoch(...) / val_one_epoch(...): no parameter changes
LoopValReturns ==
    /\ program \in {"LCD_training", "HT_training"} /\ pc = "loop_val"
    /\ \E acc \in 0..AccUnit : /\ val_acc' = acc
                               /\ val_hist' = Append(val_hist, acc)
    /\ params_hist' = Append(params_hist, params)
    /\ pc' = "loop_compare"
    /\ UNCHANGED <<inputs, loadVars, htVars, lcdVars, infVars, wtVars, lossVars, featVars, moreVars,
                   epochVars, num_epochs, epoch, params, best_val_acc, checkpoint, saves>>

\* The next iteration of `for epoch in range(num_epochs)`, or the end of the cell.
LoopAdvance ==
    IF epoch < num_epochs
      THEN epoch' = epoch + 1 /\ opt_steps' = 0 /\ pc' = "loop_train"
      ELSE epoch' = epoch /\ opt_steps' = opt_steps /\ pc' = "loop_end"

\* val_acc > best_val_acc: best_val_acc = val_acc; torch.save({... state_dict() ...}, file)
LoopSave ==
    /\ program \in {"LCD_training", "HT_training"} /\ pc = "loop_compare"
    /\ Improves(val_acc, best_val_acc)
    /\ best_val_acc' = val_acc
    /\ checkpoint' = params
    /\ saves' = Append(saves, epoch)
    /\ LoopAdvance
    /\ UNCHANGED <<inputs, loadVars, htVars, lcdVars, infVars, wtVars, lossVars, featVars, moreVars,
                   data, ei, pos_i, dialogue_loss, pair_count, total_loss, correct, total,
                   sampled, accuracy, num_epochs, params, val_acc, val_hist, params_hist>>

\* val_acc > best_val_acc is false: nothing is written
LoopKeep ==
    /\ program \in {"LCD_training", "HT_training"} /\ pc = "loop_compare"
    /\ ~Improves(val_acc, best_val_acc)
    /\ LoopAdvance
    /\ UNCHANGED <<inputs, loadVars, htVars, lcdVars, infVars, wtVars, lossVars, featVars, moreVars,
                   data, ei, pos_i, dialogue_loss, pair_count, total_loss, correct, total,
                   sampled, accuracy, num_epochs, params, val_acc, best_val_acc, checkpoint,
                   val_hist, params_hist, saves>>

\* checkpoint = torch.load(file); load_state_dict(...): FileNotFoundError without a file
LoadCheckpoint ==
    /\ program \in {"LCD_training", "HT_training"} /\ pc = "loop_end"
    /\ IF checkpoint = NoCheckpoint
         THEN pc' = "load_failed" /\ params' = params
         ELSE pc' = "loaded" /\ params' = checkpoint
    /\ UNCHANGED <<inputs, loadVars, htVars, lcdVars, infVars, wtVars, lossVars, featVars, moreVars,
                   epochVars, num_epochs, epoch, val_acc, best_val_acc, checkpoint, val_hist,
                   params_hist, saves>>

NextLoop ==
    \/ LoopOptimizerStep
    \/ LoopTrainReturns
    \/ LoopValReturns
    \/ LoopSave
    \/ LoopKeep
    \/ LoadCheckpoint

----------------------------------------------------------------------------
(* HT_in_final.ipynb: one batch of a DataLoader over a constructed dataset, through
   __getitem__, collate_fn, the embedding and padding steps of train_one_epoch /
   val_one_epoch and the entry of OrderAwareDocEncoder.forward.  A sentence embedding
   is a vector of EmbDim integers. *)

\* The dialogues a constructor called with max_utterances = m may hold: two, three and
\* seventeen loaded turns, cut by dialogue[:self.max_utterances].
BatchDialogues(m) ==
    {Truncate(d, m) : d \in {<<<<"A", "u">>, <<"B", "v">>>>,
                             <<<<"A", "u">>, <<"B", "v">>, <<"A", "v">>>>,
                             ExtractDialogue(LongDialogue)}}

\* The negatives the while loop of the constructor can build from the dialogue d.
NegativesOf(d) ==
    IF ~CanPermute(d) THEN {}
    ELSE UNION {{neg \in {RebuildNegative(d, IndicesOf(d, spk, 1), spk,
                            ShuffleSubset(UtterancesAt(d, IndicesOf(d, spk, 1)), sel, sel)) :
                              sel \in Perms(Len(IndicesOf(d, spk, 1)))} : ListNe(neg, d)} :
                  spk \in ValidSpeakers(d)}

\* self.dialogues and self.labels after the second loop of the constructor ran on the
\* loaded dialogues: each with label 1, followed or not by a negative with label 0.
RECURSIVE DatasetsOf(_)
DatasetsOf(originals) ==
    IF originals = <<>> THEN {[dialogues |-> <<>>, labels |-> <<>>]}
    ELSE LET d == Head(originals)
             own == {[dialogues |-> <<d>>, labels |-> <<1>>]}
                      \cup {[dialogues |-> <<d, neg>>, labels |-> <<1, 0>>] : neg \in NegativesOf(d)}
         IN {[dialogues |-> a.dialogues \o r.dialogues, labels |-> a.labels \o r.labels] :
                a \in own, r \in DatasetsOf(Tail(originals))}

\* The datasets a batch is taken from.
BatchDatasets(m) ==
    UNION {DatasetsOf(originals) : originals \in UNION {[1..n -> BatchDialogues(m)] : n \in 1..MaxDataset}}

\* DialogueCoherenceDataset.__getitem__
GetItem(ds, ls, idx) == [utterances |-> [i \in 1..Len(ds[idx]) |-> ds[idx][i][2]], label |-> ls[idx]]

\* max(len(utter) for utter in utter_lists)
RECURSIVE MaxLength(_)
MaxLength(lists) ==
    IF lists = <<>> THEN 0
    ELSE LET m == MaxLength(Tail(lists))
         IN IF Len(Head(lists)) >= m THEN Len(Head(lists)) ELSE m

\* Mutant of collate_fn: the mask is [1] * maxlen for every row.
collate_fn_mask_all_ones(b) ==
    LET utter_lists == [k \in 1..Len(b) |-> b[k].utterances]
        maxlen == MaxLength(utter_lists)
    IN [padded_utts |-> [k \in 1..Len(b) |->
                            utter_lists[k] \o [j \in 1..(maxlen - Len(utter_lists[k])) |-> ""]],
        mask |-> [k \in 1..Len(b) |-> [j \in 1..maxlen |-> 1]],
        labels |-> [k \in 1..Len(b) |-> b[k].label]]

\* utter_lists, labels = zip(*batch); maxlen; padded_utts = utts + [""] * (maxlen - len(utts));
\* mask = [1]*len(utts) + [0]*(maxlen-len(utts)); labels
collate_fn(b) ==
    LET utter_lists == [k \in 1..Len(b) |-> b[k].utterances]
        maxlen == MaxLength(utter_lists)
    IN [padded_utts |-> [k \in 1..Len(b) |->
                            utter_lists[k] \o [j \in 1..(maxlen - Len(utter_lists[k])) |-> ""]],
        mask |-> [k \in 1..Len(b) |->
                    [j \in 1..Len(utter_lists[k]) |-> 1]
                      \o [j \in 1..(maxlen - Len(utter_lists[k])) |-> 0]],
        labels |-> [k \in 1..Len(b) |-> b[k].label]]

\* SentenceEncoder.forward of HT_in_final on one utterance: outputs.last_hidden_state[:, 0, :],
\* the output of the model at the [CLS] token.  The tokenizer turns the empty string
\* into [CLS] [SEP], whose output is a vector like that of any other utterance.
ClsEmbedding(text) ==
    [k \in 1..EmbDim |-> IF text = "" THEN 3 ELSE IF text = "u" THEN 1 ELSE 2]

\* torch.zeros(1, e.size(1))
ZeroEmbedding == [k \in 1..EmbDim |-> 0]

\* flat_utterances = [utt for dialogue in utter_lists for utt in dialogue]
RECURSIVE FlatUtterances(_)
FlatUtterances(utter_lists) ==
    IF utter_lists = <<>> THEN <<>> ELSE Head(utter_lists) \o FlatUtterances(Tail(utter_lists))

\* torch.split(flat_embeddings, splits, dim=0)
RECURSIVE TorchSplit(_, _)
TorchSplit(flat, splits) ==
    IF splits = <<>> THEN <<>>
    ELSE <<SubSeq(flat, 1, Head(splits))>>
           \o TorchSplit(SubSeq(flat, Head(splits) + 1, Len(flat)), Tail(splits))

\* flat_embeddings = sent_encoder(flat_utterances); splits = [len(utts) for utts in utter_lists];
\* torch.split; maxlen = max(splits); torch.cat([e, torch.zeros(maxlen - e.size(0), ...)]);
\* torch.stack
PadAndStack(utter_lists) ==
    LET flat_utterances == FlatUtterances(utter_lists)
        flat_embeddings == [i \in 1..Len(flat_utterances) |-> ClsEmbedding(flat_utterances[i])]
        splits == [k \in 1..Len(utter_lists) |-> Len(utter_lists[k])]
        split_batch == TorchSplit(flat_embeddings, splits)
        maxlen == MaxLength(utter_lists)
    IN [k \in 1..Len(split_batch) |->
          split_batch[k] \o [j \in 1..(maxlen - Len(split_batch[k])) |-> ZeroEmbedding]]

\* The DataLoader (shuffle=True) yields the next batch: batch_size items of the dataset in
\* the order of a random permutation, passed through __getitem__ and collate_fn.
HTCollate ==
    /\ program = "HT_batch" /\ pc = "batch"
    /\ \E p \in Perms(Len(dataset.dialogues)) :
         LET drawn == SubSeq(p, 1, Min(BatchSize, Len(p)))
             c == collate_fn([k \in 1..Len(drawn) |->
                                GetItem(dataset.dialogues, dataset.labels, drawn[k])])
         IN /\ order' = drawn
            /\ padded_utts' = c.padded_utts
            /\ mask' = c.mask
            /\ batch_labels' = c.labels
    /\ pc' = "collated"
    /\ UNCHANGED <<inputs, loadVars, htVars, lcdVars, infVars, wtVars, lossVars, featVars,
                   epochVars, loopVars, twiceVars, poolVars, critVars,
                   dataset, utter_emb_batch, transformer_mask>>

\* for utter_lists, mask, labels in dataloader: the body up to torch.stack
HTPadAndStack ==
    /\ program = "HT_batch" /\ pc = "collated"
    /\ utter_emb_batch' = PadAndStack(padded_utts)
    /\ pc' = "stacked"
    /\ UNCHANGED <<inputs, loadVars, htVars, lcdVars, infVars, wtVars, lossVars, featVars,
                   epochVars, loopVars, twiceVars, poolVars, critVars,
                   dataset, order, padded_utts, mask, batch_labels, transformer_mask>>

\* doc_encoder(utter_emb_batch, mask): seq_len = sent_emb.size(1); pos_emb =
\* self.positional[:, :seq_len, :]; x = sent_emb + pos_emb, which raises when seq_len
\* exceeds the max_len rows of the table; transformer_mask = ~mask.bool()
HTDocEncoderForward ==
    /\ program = "HT_batch" /\ pc = "stacked"
    /\ LET seq_len == Len(utter_emb_batch[1]) IN
         IF seq_len <= PositionalLen
           THEN /\ transformer_mask' = [k \in 1..Len(mask) |->
                                          [j \in 1..Len(mask[k]) |-> mask[k][j] = 0]]
                /\ pc' = "forwarded"
           ELSE /\ transformer_mask' = transformer_mask
                /\ pc' = "raised"
    /\ UNCHANGED <<inputs, loadVars, htVars, lcdVars, infVars, wtVars, lossVars, featVars,
                   epochVars, loopVars, twiceVars, poolVars, critVars,
                   dataset, order, padded_utts, mask, batch_labels, utter_emb_batch>>

NextBatch ==
    \/ HTCollate
    \/ HTPadAndStack
    \/ HTDocEncoderForward

----------------------------------------------------------------------------
(* HT_in_final.ipynb: DialogueCoherenceDataset constructed twice, by two processes, on
   the same folder with the same seed.  random.seed(seed) fixes the stream of the
   generator: call number c returns a value computed from the c-th raw draw of the
   stream and from the arguments of the call.  What the seed does not fix is left to
   each process: the order in which glob lists the files and the order in which a set
   of strings is enumerated (the hash of a string changes from process to process). *)

\* The raw draws of the generator after random.seed(seed): rng_stream, repeated.
RawDraw(stream, c) == stream[((c - 1) % Len(stream)) + 1]

\* The permutation of 1..n number r, by insertion: the permutations of 1..n-1 with n
\* inserted at one of the n places.
RECURSIVE PermNumber(_, _)
PermNumber(n, r) ==
    IF n = 0 THEN <<>>
    ELSE LET rest == PermNumber(n - 1, r \div n)
             place == (r % n) + 1
         IN SubSeq(rest, 1, place - 1) \o <<n>> \o SubSeq(rest, place, n - 1)

\* random.choice(seq) on the raw draw r
RandomChoice(seq, r) == seq[(r % Len(seq)) + 1]

\* random.randint(a, b) on the raw draw r
RandomRandint(a, b, r) == a + (r % (b - a + 1))

\* random.sample(range(n), k) on the raw draw r
RandomSample(n, k, r) == SubSeq(PermNumber(n, r), 1, k)

\* list({spk for spk, _ in d}): the speakers of d in the order of the process
SpeakerList(d, enumeration) ==
    LET keep(x) == x \in SpeakersOf(d) IN SelectSeq(enumeration, keep)

\* The first loop of the constructor on the lines ls of one file.
RECURSIVE LoadLines(_, _)
LoadLines(ls, m) ==
    IF ls = <<>> THEN <<>>
    ELSE LET line == Head(ls)
             dialogue == ExtractDialogue(line.dialogue)
         IN (IF line.kind /= "blank" /\ JsonParses(line) /\ KeepDialogue(dialogue)
               THEN <<Truncate(dialogue, m)>> ELSE <<>>) \o LoadLines(Tail(ls), m)

\* for file in glob(...): the files in the order listed
RECURSIVE LoadFiles(_, _)
LoadFiles(files, m) ==
    IF files = <<>> THEN <<>> ELSE LoadLines(Head(files), m) \o LoadFiles(Tail(files), m)

\* The while loop from the attempt number a on, the generator having answered c calls:
\* whether a shuffle different from utts was found, the shuffle, the calls answered.
RECURSIVE RetryLoop(_, _, _, _)
RetryLoop(us, stream, c, a) ==
    IF ~LoopContinues(a) THEN [found |-> FALSE, shuffled_utts |-> us, calls |-> c]
    ELSE LET num_to_shuffle == RandomRandint(2, Len(us), RawDraw(stream, c + 1))
             selected == RandomSample(Len(us), num_to_shuffle, RawDraw(stream, c + 2))
             p == PermNumber(num_to_shuffle, RawDraw(stream, c + 3))
             shuffled_utts == ShuffleSubset(us, selected, p)
         IN IF ListNe(shuffled_utts, us)
              THEN [found |-> TRUE, shuffled_utts |-> shuffled_utts, calls |-> c + 3]
              ELSE RetryLoop(us, stream, c + 3, a + 1)

\* The second loop of the constructor from the dialogue number k on.
RECURSIVE BuildFrom(_, _, _, _, _)
BuildFrom(all, k, stream, c, enumeration) ==
    IF k > Len(all) THEN [dialogues |-> <<>>, labels |-> <<>>]
    ELSE LET original_dialogue == all[k]
             speakers == SpeakerList(original_dialogue, enumeration)
             valid(spk) == Len(IndicesOf(original_dialogue, spk, 1)) > 1
             valid_speakers == SelectSeq(speakers, valid)
         IN IF Len(speakers) < 2 \/ valid_speakers = <<>>
              THEN LET r == BuildFrom(all, k + 1, stream, c, enumeration)
                   IN [dialogues |-> <<original_dialogue>> \o r.dialogues,
                       labels |-> <<1>> \o r.labels]
              ELSE LET spk == RandomChoice(valid_speakers, RawDraw(stream, c + 1))
                       idxs == IndicesOf(original_dialogue, spk, 1)
                       loop == RetryLoop(UtterancesAt(original_dialogue, idxs), stream, c + 1, 0)
                       neg_dialogue == RebuildNegative(original_dialogue, idxs, spk, loop.shuffled_utts)
                       r == BuildFrom(all, k + 1, stream, loop.calls, enumeration)
                   IN IF loop.found /\ ListNe(neg_dialogue, original_dialogue)
                        THEN [dialogues |-> <<original_dialogue, neg_dialogue>> \o r.dialogues,
                              labels |-> <<1, 0>> \o r.labels]
                        ELSE [dialogues |-> <<original_dialogue>> \o r.dialogues,
                              labels |-> <<1>> \o r.labels]

\* DialogueCoherenceDataset(data_folder, max_utterances, seed) run by one process: the
\* listing of the files, the enumeration of the speakers, self.dialogues and self.labels.
Construct(files, m, stream, listing, enumeration) ==
    LET all_loaded == LoadFiles([i \in 1..Len(files) |-> files[listing[i]]], m)
        built == BuildFrom(all_loaded, 1, stream, 0, enumeration)
    IN [listing |-> listing, enumeration |-> enumeration,
        raised |-> all_loaded = <<>>,
        dialogues |-> IF all_loaded = <<>> THEN <<>> ELSE built.dialogues,
        labels |-> IF all_loaded = <<>> THEN <<>> ELSE built.labels]

\* The folders constructed twice: two files of one line each.
TwiceDialogues == {<<DictTurn(<<<<"A", "u">>>>), DictTurn(<<<<"B", "u">>>>),
                     DictTurn(<<<<"A", "v">>>>), DictTurn(<<<<"B", "v">>>>)>>,
                   <<DictTurn(<<<<"A", "u">>>>), DictTurn(<<<<"B", "v">>>>),
                     DictTurn(<<<<"A", "v">>>>)>>}
TwiceCorpora == [1..2 -> {<<RecordLine(d)>> : d \in TwiceDialogues}]

\* The streams a seed can set.
Streams == [1..StreamLen -> 0..(RawBound - 1)]

\* The first process constructs the dataset.
ConstructFirst ==
    /\ program = "HT_twice" /\ pc = "first"
    /\ \E listing \in Perms(Len(folder)), enumeration \in Perms(2) :
         first_run' = Construct(folder, max_utterances, rng_stream, listing,
                                [i \in 1..2 |-> <<"A", "B">>[enumeration[i]]])
    /\ pc' = "second"
    /\ UNCHANGED <<inputs, loadVars, htVars, lcdVars, infVars, wtVars, lossVars, featVars,
                   epochVars, loopVars, batchVars, poolVars, critVars, folder, rng_stream,
                   second_run>>

\* The second process constructs it again, with the same seed.
ConstructSecond ==
    /\ program = "HT_twice" /\ pc = "second"
    /\ \E listing \in Perms(Len(folder)), enumeration \in Perms(2) :
         second_run' = Construct(folder, max_utterances, rng_stream, listing,
                                 [i \in 1..2 |-> <<"A", "B">>[enumeration[i]]])
    /\ pc' = "twice"
    /\ UNCHANGED <<inputs, loadVars, htVars, lcdVars, infVars, wtVars, lossVars, featVars,
                   epochVars, loopVars, batchVars, poolVars, critVars, folder, rng_stream,
                   first_run>>

NextTwice ==
    \/ ConstructFirst
    \/ ConstructSecond

----------------------------------------------------------------------------
(* LCD_in_final.ipynb: the mean pooling of SentenceEncoder.forward, on the token
   embeddings and the attention mask of one sentence.  The quotient summed / counts is
   kept as the fraction <<summed, counts>>, component by component. *)

\* The outputs of the model for a sentence of 1 to MaxTokens tokens.
TokenEmbeddings == UNION {[1..n -> [1..EmbDim -> TokenValues]] : n \in 1..MaxTokens}

\* Mutant of ClampMin1: counts is not clamped.
NotClamped(x) == x

\* .clamp(min=1)
ClampMin1(x) == IF x < 1 THEN 1 ELSE x

\* masked_embeddings = embeddings * attention_mask; summed = masked_embeddings.sum(dim=1);
\* counts = attention_mask.sum(dim=1).clamp(min=1); summed / counts
MeanPooling(embeddings, am) ==
    LET masked_embeddings == [i \in 1..Len(embeddings) |->
                                [k \in 1..EmbDim |-> embeddings[i][k] * am[i]]]
        summed == [k \in 1..EmbDim |->
                     SumRange([i \in 1..Len(embeddings) |-> masked_embeddings[i][k]], 1, Len(embeddings))]
        counts == ClampMin1(SumRange(am, 1, Len(am)))
    IN [k \in 1..EmbDim |-> <<summed[k], counts>>]

\* The pooling lines of SentenceEncoder.forward
CallMeanPooling ==
    /\ program = "mean_pooling" /\ pc = "call"
    /\ pooled' = MeanPooling(token_embeddings, attention_mask)
    /\ pc' = "returned"
    /\ UNCHANGED <<inputs, loadVars, htVars, lcdVars, infVars, wtVars, lossVars, featVars,
                   epochVars, loopVars, batchVars, twiceVars, critVars, token_embeddings,
                   attention_mask>>

NextFunctions ==
    \/ CallBoundedMarginLoss
    \/ CallBuildPairwiseFeatures
    \/ CallMeanPooling

----------------------------------------------------------------------------
(* The specification *)

\* What a run executes: one of the two notebooks' data paths, or one function.
Programs == {"HT", "LCD", "bounded_margin_loss", "build_pairwise_features",
             "train_one_epoch", "eval_one_epoch", "LCD_training", "HT_training", "HT_batch",
             "HT_twice", "mean_pooling"}

Init ==
    /\ program \in Programs
    /\ corpus \in (IF program \in {"HT", "LCD"} THEN Corpora ELSE {<<>>})
    /\ max_utterances \in (IF program \in {"HT", "HT_batch"} THEN {SmallMaxUtterances, DefaultMaxUtterances}
                                             ELSE {DefaultMaxUtterances})
    /\ num_permutations \in (IF program = "LCD" THEN 1..MaxPerms ELSE {1})
    /\ pc = (IF program \in {"HT", "LCD"} THEN "load"
             ELSE IF program \in {"train_one_epoch", "eval_one_epoch"} THEN "ep_dialogue"
             ELSE IF program \in {"LCD_training", "HT_training"} THEN "loop_train"
             ELSE IF program = "HT_batch" THEN "batch"
             ELSE IF program = "HT_twice" THEN "first"
             ELSE "call")
    /\ fi = 1
    /\ li = 0
    /\ all_dialogues = <<>>
    /\ warnings = <<>>
    /\ di = 1
    /\ dialogues = <<>>
    /\ labels = <<>>
    /\ srcs = <<>>
    /\ target_spk = ""
    /\ indices = <<>>
    /\ utts = <<>>
    /\ attempts = 0
    /\ true = <<>>
    /\ evaluated = <<>>
    /\ choice = ""
    /\ other_turns = <<>>
    /\ permutations = <<>>
    /\ permute_sub_idx = <<>>
    /\ to_shuffle = <<>>
    /\ shuffled = <<>>
    /\ weights = <<>>
    /\ mode = "train"
    /\ pred = <<>>
    /\ scored = <<>>
    /\ n_positive = 0
    /\ n_negative = 0
    /\ pos_weight = <<0, 1>>
    /\ loss_params \in (IF program = "bounded_margin_loss" THEN LossParamChoices ELSE {<<>>})
    /\ score_pos \in (IF program = "bounded_margin_loss" THEN ScoreRange(loss_params) ELSE {0})
    /\ score_neg \in (IF program = "bounded_margin_loss" THEN ScoreRange(loss_params) ELSE {0})
    /\ loss = 0
    /\ emb_s \in (IF program = "build_pairwise_features"
                    THEN UNION {[1..d -> -MaxCoord..MaxCoord] : d \in 1..MaxDim} ELSE {<<>>})
    /\ emb_t \in [1..Len(emb_s) -> -MaxCoord..MaxCoord]
    /\ features = <<>>
    /\ data \in (IF program \in {"train_one_epoch", "eval_one_epoch"} THEN EpochData ELSE {<<>>})
    /\ ei = 1
    /\ pos_i = 1
    /\ dialogue_loss = 0
    /\ pair_count = 0
    /\ total_loss = 0
    /\ correct = 0
    /\ total = 0
    /\ opt_steps = 0
    /\ sampled = <<>>
    /\ accuracy = <<0, 1>>
    /\ num_epochs = (IF program \in {"LCD_training", "HT_training"} THEN MaxEpochs ELSE 0)
    /\ epoch = (IF program \in {"LCD_training", "HT_training"} THEN 1 ELSE 0)
    /\ params = 0
    /\ val_acc = 0
    /\ best_val_acc = 0
    /\ checkpoint = NoCheckpoint
    /\ val_hist = <<>>
    /\ params_hist = <<>>
    /\ saves = <<>>
    /\ dataset \in (IF program = "HT_batch" THEN BatchDatasets(max_utterances) ELSE {<<>>})
    /\ order = <<>>
    /\ padded_utts = <<>>
    /\ mask = <<>>
    /\ batch_labels = <<>>
    /\ utter_emb_batch = <<>>
    /\ transformer_mask = <<>>
    /\ folder \in (IF program = "HT_twice" THEN TwiceCorpora ELSE {<<>>})
    /\ rng_stream \in (IF program = "HT_twice" THEN Streams ELSE {<<>>})
    /\ first_run = <<>>
    /\ second_run = <<>>
    /\ token_embeddings \in (IF program = "mean_pooling" THEN TokenEmbeddings ELSE {<<>>})
    /\ attention_mask \in [1..Len(token_embeddings) -> {0, 1}]
    /\ pooled = <<>>
    /\ val_labels = <<>>
    /\ val_n_positive = 0
    /\ val_n_negative = 0
    /\ val_pos_weight = <<0, 1>>
    /\ train_criterion = <<0, 1>>
    /\ val_criterion = <<0, 1>>

Next == NextHT \/ NextLCD \/ NextFunctions \/ NextEpoch \/ NextLoop \/ NextBatch \/ NextTwice

Spec == Init /\ [][Next]_vars

----------------------------------------------------------------------------
(* Properties *)

\* Two dialogues differ in the utterance text of at least one position.
DiffersInUtterance(d, s) == \E p \in 1..Min(Len(d), Len(s)) : d[p][2] /= s[p][2]

\* The number of turns of d equal to turn.
Count(d, turn) == Cardinality({k \in 1..Len(d) : d[k] = turn})

\* neg has the length and the speakers of src, only the turns of spk may differ, and
\* every (speaker, text) pair occurs as often in neg as in src.
SameShape(neg, src, spk) ==
    /\ Len(neg) = Len(src)
    /\ \A i \in 1..Len(src) :
         /\ neg[i][1] = src[i][1]
         /\ src[i][1] /= spk => neg[i] = src[i]
         /\ Count(neg, src[i]) = Count(src, src[i])
         /\ Count(neg, neg[i]) = Count(src, neg[i])

\* Some speaker says the same text twice in d.
RepeatsText(d, spk) ==
    \E p, q \in 1..Len(d) : p /= q /\ d[p] = d[q] /\ d[p][1] = spk

\* C1: every dialogue that test_experiment records with true label 0 differs from its
\* source dialogue in at least one utterance position.
C1_RecordedNegativeDiffers ==
    \A i \in 1..Len(true) :
        true[i] = 0 => DiffersInUtterance(evaluated[i].dialogue, evaluated[i].source)

\* C2: every label-0 entry of DialogueCoherenceDataset differs from the (truncated)
\* dialogue it was derived from in at least one utterance text.
C2_LabelZeroDiffers ==
    \A j \in 1..Len(dialogues) :
        labels[j] = 0 => DiffersInUtterance(dialogues[j], all_dialogues[srcs[j].idx])

\* C2 happens: a label-0 entry whose target speaker says the same text twice in the source.
C2_Witness ==
    \E j \in 1..Len(dialogues) :
        /\ labels[j] = 0
        /\ RepeatsText(all_dialogues[srcs[j].idx], srcs[j].target)

\* C3: every synthesized negative (a label-0 entry of the dataset, a dialogue returned
\* by permute_dialogue) has the length and the speaker sequence of its source, leaves
\* the turns of the other speakers in place and keeps each speaker's texts as a multiset.
C3_NegativeKeepsShape ==
    /\ \A j \in 1..Len(dialogues) :
         labels[j] = 0 => SameShape(dialogues[j], all_dialogues[srcs[j].idx], srcs[j].target)
    /\ \A i \in 1..Len(true) :
         true[i] = 0 => SameShape(evaluated[i].dialogue, evaluated[i].source, evaluated[i].target)
    /\ \A i \in 1..Len(permutations) : SameShape(permutations[i], all_dialogues[di], choice)

\* C3 happens: a label-0 entry that moved the target's utterances around a turn of
\* another speaker that lies between them.
C3_Witness ==
    \E j \in 1..Len(dialogues) :
        /\ labels[j] = 0
        /\ \E a, b, c \in 1..Len(dialogues[j]) :
             /\ a < b /\ b < c
             /\ dialogues[j][a][1] = srcs[j].target
             /\ dialogues[j][c][1] = srcs[j].target
             /\ dialogues[j][b][1] /= srcs[j].target
             /\ dialogues[j][a] /= all_dialogues[srcs[j].idx][a]
             /\ dialogues[j][c] /= all_dialogues[srcs[j].idx][c]

\* The speakers with at least two utterances in d.
SpeakersWithTwo(d) ==
    {spk \in {d[i][1] : i \in 1..Len(d)} :
        \E p, q \in 1..Len(d) : p /= q /\ d[p][1] = spk /\ d[q][1] = spk}

\* d has length >= 3 and at least 2 speakers with at least 2 utterances each.
TwoSpeakersTwice(d) == Len(d) >= 3 /\ Cardinality(SpeakersWithTwo(d)) >= 2

C4_Step ==
    /\ (program = "HT" /\ pc = "build" /\ di <= Len(all_dialogues)
            /\ TwoSpeakersTwice(all_dialogues[di])) => pc' = "shuffle"
    /\ (program = "HT" /\ pc = "shuffle" /\ pc' /= "shuffle") =>
          \/ attempts = MaxAttempts /\ dialogues' = dialogues /\ labels' = labels
          \/ /\ Len(dialogues') = Len(dialogues) + 1
             /\ labels' = Append(labels, 0)
             /\ srcs'[Len(srcs')].idx = di
             /\ dialogues'[Len(dialogues')] /= all_dialogues[di]
    /\ \A i \in 1..Len(permutations') :
          Len(indices') >= 2 => permutations'[i] /= all_dialogues[di']
    /\ \A i \in 1..Len(true') :
          (true'[i] = 0 /\ evaluated'[i].target \in SpeakersWithTwo(evaluated'[i].source)) =>
              evaluated'[i].dialogue /= evaluated'[i].source

C5_BoundedRetries ==
    /\ pc = "shuffle" => attempts <= MaxAttempts
    /\ pc = "pd_shuffle" =>
          \E p \in Perms(Len(shuffled)) : ApplyShuffle(shuffled, p) /= to_shuffle

\* The speakers of d.
SpeakerSet(d) == {d[i][1] : i \in 1..Len(d)}

\* C6 as stated: a dialogue with a single utterance, or with exactly one speaker that
\* has more than one utterance, contributes no label-0 entry.
C6_NoNegativeWithOneQualifyingSpeaker ==
    \A j \in 1..Len(dialogues) :
        labels[j] = 0 =>
            /\ Len(all_dialogues[srcs[j].idx]) > 1
            /\ Cardinality(SpeakersWithTwo(all_dialogues[srcs[j].idx])) /= 1

\* The number of label-l entries among the first j entries of the dataset.
CountLabel(l, j) == Cardinality({k \in 1..j : labels[k] = l})

\* C7: the dataset holds, for every loaded dialogue in order, the original with label 1
\* and then at most one negative with label 0 right after it, none when the dialogue
\* has fewer than 2 speakers or no speaker with two utterances; the two lists have equal
\* length, the label-1 entries are the loaded dialogues, label-0 entries never outnumber them.
C7_DatasetStructure ==
    program = "HT" =>
        /\ Len(dialogues) = Len(labels)
        /\ \A j \in 1..Len(labels) :
             /\ labels[j] \in {0, 1}
             /\ labels[j] = 1 => dialogues[j] = all_dialogues[CountLabel(1, j)]
             /\ labels[j] = 0 =>
                  /\ j > 1
                  /\ labels[j-1] = 1
                  /\ Cardinality(SpeakerSet(dialogues[j-1])) >= 2
                  /\ SpeakersWithTwo(dialogues[j-1]) /= {}
        /\ CountLabel(1, Len(labels)) <= Len(all_dialogues)
        /\ pc = "done" => CountLabel(1, Len(labels)) = Len(all_dialogues)
        /\ CountLabel(0, Len(labels)) <= CountLabel(1, Len(labels))

\* C7 happens: a constructed dataset with a negative followed by an original that has none.
C7_Witness ==
    /\ program = "HT" /\ pc = "done"
    /\ \E j \in 2..Len(labels) :
         /\ labels[j] = 0
         /\ j < Len(labels)
         /\ j + 1 = Len(labels) \/ labels[j+2] = 1

\* The lines of all files, in reading order.
RECURSIVE Flatten(_)
Flatten(files) == IF files = <<>> THEN <<>> ELSE Head(files) \o Flatten(Tail(files))

IsRecord(line) == line.kind = "json"

\* The dialogues a loader must hold after reading the record lines ls: those of at
\* least 2 utterances, cut to max_utterances by the dataset constructor.
RECURSIVE ExpectedDialogues(_)
ExpectedDialogues(ls) ==
    IF ls = <<>> THEN <<>>
    ELSE LET d == ExtractDialogue(Head(ls).dialogue)
         IN (IF Len(d) >= 2
               THEN <<IF program = "HT" THEN SubSeq(d, 1, Min(Len(d), max_utterances)) ELSE d>>
               ELSE <<>>) \o ExpectedDialogues(Tail(ls))

\* C8: if the corpus yields no valid dialogue, the dataset constructor raises and no
\* dialogue or label is emitted: it never gets past the loading.
C8_EmptyCorpusRaises ==
    (program = "HT" /\ ExpectedDialogues(SelectSeq(Flatten(corpus), IsRecord)) = <<>>) =>
        /\ pc \in {"load", "raised"}
        /\ dialogues = <<>>
        /\ labels = <<>>

\* C8 happens: the constructor has raised on a corpus of a malformed line and a record
\* that is too short.
C8_Witness ==
    /\ program = "HT" /\ pc = "raised"
    /\ \E l \in 1..Len(Flatten(corpus)) : Flatten(corpus)[l].kind = "bad"
    /\ \E l \in 1..Len(Flatten(corpus)) :
         Flatten(corpus)[l].kind = "json" /\ Len(Flatten(corpus)[l].dialogue) = 2

\* The lines for which a warning is printed: the dataset constructor skips blank lines
\* before parsing, load_dialogues_with_speakers does not.
Unparsed(line) == line.kind = "bad" \/ (program = "LCD" /\ line.kind = "blank")

\* C9: a line that does not parse is skipped with a warning and every well-formed line
\* before and after it, in its file and in the others, is loaded in order: once the
\* loading is over all files were read to their end, one warning was printed per such
\* line, and the loader holds what it would hold had these lines not been there.
C9_MalformedLineSkipped ==
    pc /= "load" =>
        /\ fi = Len(corpus) + 1
        /\ all_dialogues = ExpectedDialogues(SelectSeq(Flatten(corpus), IsRecord))
        /\ Len(warnings) = Len(SelectSeq(Flatten(corpus), Unparsed))

\* C9 happens: a file with a loaded record, a malformed line and another loaded record
\* has been read by load_dialogues_with_speakers.
C9_Witness ==
    /\ program = "LCD" /\ pc /= "load"
    /\ Len(all_dialogues) = 2
    /\ \E f \in 1..Len(corpus) :
         /\ Len(corpus[f]) = 3
         /\ corpus[f][1].kind = "json"
         /\ corpus[f][2].kind = "bad"
         /\ corpus[f][3].kind = "json"

\* C10: the loaders keep exactly the dialogues of at least 2 turns; every dialogue of
\* load_dialogues_with_speakers has length >= 2, every dialogue of the dataset has a
\* length between 2 and max_utterances, and a dialogue of 2 utterances is in the
\* dataset with label 1.
C10_LoadedLengths ==
    /\ \A i \in 1..Len(all_dialogues) : Len(all_dialogues[i]) >= 2
    /\ \A j \in 1..Len(dialogues) :
         Len(dialogues[j]) >= 2 /\ Len(dialogues[j]) <= max_utterances
    /\ pc /= "load" =>
         Len(all_dialogues) =
            Len(SelectSeq(Flatten(corpus),
                          LAMBDA l : l.kind = "json" /\ Len(ExtractDialogue(l.dialogue)) >= 2))
    /\ (program = "HT" /\ pc = "done") =>
         \A l \in 1..Len(Flatten(corpus)) :
            LET line == Flatten(corpus)[l] IN
              (line.kind = "json" /\ Len(ExtractDialogue(line.dialogue)) = 2) =>
                 \E j \in 1..Len(dialogues) :
                    labels[j] = 1 /\ dialogues[j] = ExtractDialogue(line.dialogue)

\* C10 happens: with the default max_utterances, a dialogue of more than 16 utterances
\* is in the dataset, cut to 16, with a negative of 16 utterances.
C10_Witness ==
    /\ program = "HT" /\ pc = "done"
    /\ max_utterances = DefaultMaxUtterances
    /\ \E l \in 1..Len(Flatten(corpus)) :
         Len(ExtractDialogue(Flatten(corpus)[l].dialogue)) > max_utterances
    /\ \E j \in 1..Len(dialogues) : labels[j] = 0 /\ Len(dialogues[j]) = max_utterances

\* C20: the positive-class weight of the training loss is the number of label-0 entries
\* over the number of label-1 entries of the training dataset; 100 positives and 60
\* negatives give 60/100 = 0.6 = 6/10; the weight is in [0, 1].
C20_PosWeightIsNegOverPos ==
    /\ pc = "criterion" =>
         /\ pos_weight = <<Cardinality({j \in 1..Len(labels) : labels[j] = 0}),
                           Cardinality({j \in 1..Len(labels) : labels[j] = 1})>>
         /\ pos_weight[2] > 0
         /\ 0 <= pos_weight[1] /\ pos_weight[1] <= pos_weight[2]
    /\ LET w == PosWeight([j \in 1..160 |-> IF j <= 100 THEN 1 ELSE 0])
       IN w = <<60, 100>> /\ w[1] * 10 = 6 * w[2]

\* C20 happens: the weight was computed for a dataset with negatives and with an
\* original that has none, so that it is strictly between 0 and 1.
C20_Witness ==
    /\ pc = "criterion"
    /\ 0 < pos_weight[1] /\ pos_weight[1] < pos_weight[2]

\* Twice the averaged score of the pair (k, k+1) of d in eval mode, in units of
\* 1/ScoreUnit: forward score of (u_k, u_k+1) plus backward score of (u_k+1, u_k).
ScoreSum(d, k) ==
    ScoreUnit * (weights.fwd.w2 * Relu(Dot(weights.fwd.w1,
                     build_pairwise_features(Embed(d[k][2]), Embed(d[k + 1][2]))) + weights.fwd.b1)
                 + weights.fwd.b2)
    + ScoreUnit * (weights.bwd.w2 * Relu(Dot(weights.bwd.w1,
                     build_pairwise_features(Embed(d[k + 1][2]), Embed(d[k][2]))) + weights.bwd.b1)
                   + weights.bwd.b2)

\* The adjacent positions of d whose averaged score is strictly negative.
NegativePairs(d) == {k \in 1..Len(d) - 1 : ScoreSum(d, k) < 0}

\* C11: compute_dialogue_pred returns 0 if and only if some adjacent pair has a strictly
\* negative averaged score, and it stops at the first such pair; it returns 1 otherwise,
\* after scoring every pair, also when every score is 0 and when there is no pair.
C11_ConjunctiveRule ==
    program = "LCD" =>
        /\ \A i \in 1..Len(pred) :
             LET d == evaluated[i].dialogue IN
               /\ pred[i] = 0 <=> NegativePairs(d) /= {}
               /\ pred[i] = 1 <=> NegativePairs(d) = {}
               /\ NegativePairs(d) /= {} =>
                     scored[i] \in NegativePairs(d) /\ \A k \in NegativePairs(d) : scored[i] <= k
               /\ NegativePairs(d) = {} => scored[i] = Len(d) - 1
        /\ \A x \in Texts :
             compute_dialogue_pred("eval", weights, <<<<"A", x>>>>, 1) = {[label |-> 1, scored |-> 0]}

\* C11 happens: a prediction of 0 that stopped at a pair that is neither the first nor
\* the last of its dialogue, after a prediction of 1.
C11_Witness ==
    /\ program = "LCD"
    /\ \E i \in 1..Len(pred) :
         pred[i] = 0 /\ scored[i] > 1 /\ scored[i] < Len(evaluated[i].dialogue) - 1
    /\ \E i \in 1..Len(pred) : pred[i] = 1

\* C12: inference is idempotent: running compute_dialogue_pred again on a dialogue
\* already predicted, with the parameters and the mode the models are in, has one
\* outcome only, the label recorded; two predictions of one dialogue agree.
C12_InferenceIdempotent ==
    program = "LCD" =>
        /\ \A i \in 1..Len(pred) :
             {r.label : r \in compute_dialogue_pred(mode, weights, evaluated[i].dialogue, 1)}
                = {pred[i]}
        /\ \A i, j \in 1..Len(pred) :
             evaluated[i].dialogue = evaluated[j].dialogue => pred[i] = pred[j]

\* C12 happens: the same dialogue was predicted twice (the original, and the copy that
\* permute_dialogue returned), with a scorer whose scores are not all 0, and got label 0.
C12_Witness ==
    /\ program = "LCD"
    /\ \E i, j \in 1..Len(pred) :
         /\ i /= j
         /\ evaluated[i].dialogue = evaluated[j].dialogue
         /\ pred[i] = 0

\* max(a, b)
MaxOf(a, b) == IF a >= b THEN a ELSE b

\* The three violations at the scores sp, sn under the arguments p: of the margin, of
\* the upper bound and of the lower bound.
Violations(sp, sn, p) ==
    <<MaxOf(0, p.margin - (sp - sn)), MaxOf(0, sp - p.upper_bound), MaxOf(0, p.lower_bound - sp)>>

\* The weighted sum of three violations.
WeightedSum(v, p) == v[1] + p.lambda_upper * v[2] + p.lambda_lower * v[3]

\* C13: the loss returned is max(0, m - (score_pos - score_neg)) + lambda_U * max(0,
\* score_pos - U) + lambda_L * max(0, L - score_pos); it is 0 if and only if score_pos -
\* score_neg >= m and L <= score_pos <= U, strictly positive otherwise, and no scores
\* whose three violations are at least as large have a smaller loss.
C13_BoundedMarginLoss ==
    (program = "bounded_margin_loss" /\ pc = "returned") =>
        LET p == loss_params
            v == Violations(score_pos, score_neg, p)
        IN /\ p.lower_bound <= p.upper_bound /\ p.lambda_upper > 0 /\ p.lambda_lower > 0
           /\ loss = WeightedSum(v, p)
           /\ loss = 0 <=> (score_pos - score_neg >= p.margin /\ p.lower_bound <= score_pos
                               /\ score_pos <= p.upper_bound)
           /\ loss >= 0
           /\ \A sp \in ScoreRange(p), sn \in ScoreRange(p) :
                LET v2 == Violations(sp, sn, p) IN
                  /\ (v2[1] >= v[1] /\ v2[2] >= v[2] /\ v2[3] >= v[3]) =>
                        WeightedSum(v2, p) >= loss
                  /\ (v2[1] >= v[1] /\ v2[2] >= v[2] /\ v2[3] >= v[3] /\ v2 /= v) =>
                        WeightedSum(v2, p) > loss

\* C13 happens: the loss was computed on scores that violate the lower bound and the
\* margin, with the default arguments.
C13_Witness ==
    /\ program = "bounded_margin_loss" /\ pc = "returned"
    /\ loss_params = DefaultLossParams
    /\ score_pos < loss_params.lower_bound
    /\ score_pos - score_neg < loss_params.margin
    /\ loss > loss_params.margin

\* C14: build_pairwise_features(s, t) has length 5d, its five blocks are s, t, s - t,
\* |s - t| and s * t componentwise, and it differs from build_pairwise_features(t, s)
\* whenever s /= t.
C14_PairwiseFeatures ==
    (program = "build_pairwise_features" /\ pc = "returned") =>
        LET d == Len(emb_s) IN
          /\ Len(features) = 5 * d
          /\ \A k \in 1..d :
               /\ features[k] = emb_s[k]
               /\ features[d + k] = emb_t[k]
               /\ features[2 * d + k] = emb_s[k] - emb_t[k]
               /\ features[3 * d + k] = MaxOf(emb_s[k] - emb_t[k], emb_t[k] - emb_s[k])
               /\ features[4 * d + k] = emb_s[k] * emb_t[k]
          /\ emb_s /= emb_t => features /= build_pairwise_features(emb_t, emb_s)

\* C14 happens: the features of two different embeddings of dimension 2 with a
\* negative difference and a negative product were built.
C14_Witness ==
    /\ program = "build_pairwise_features" /\ pc = "returned"
    /\ Len(emb_s) = 2
    /\ emb_s /= emb_t
    /\ \E k \in 1..2 : emb_s[k] < emb_t[k]
    /\ \E k \in 1..2 : emb_s[k] * emb_t[k] < 0
    /\ Len(features) = 10

\* The entries of sampled that belong to dialogue e of data.
SampledOf(e) == SelectSeq(sampled, LAMBDA x : x.dlg = e)

RECURSIVE SumLosses(_)
SumLosses(xs) == IF xs = <<>> THEN 0 ELSE Head(xs).loss + SumLosses(Tail(xs))

\* Position i of d has a negative candidate: an index other than i + 1 whose speaker
\* is not the speaker of i.
HasCandidate(d, i) == \E j \in 1..Len(d) : j /= i + 1 /\ d[j][1] /= d[i][1]

\* d has at least 3 utterances and an adjacent position with a negative candidate.
Scorable(d) == Len(d) >= 3 /\ \E i \in 1..Len(d) - 1 : HasCandidate(d, i)

C15_Step ==
    program = "train_one_epoch" =>
        /\ ei' = ei => /\ total_loss' = total_loss /\ correct' = correct
                       /\ total' = total /\ opt_steps' = opt_steps
        /\ ei' /= ei =>
             IF Scorable(data[ei])
               THEN /\ total' = total + 1
                    /\ opt_steps' = opt_steps + 1
                    /\ correct' \in {correct, correct + 1}
                    /\ (total_loss' - total_loss) * Len(SampledOf(ei))
                          = LossUnit * SumLosses(SampledOf(ei))
               ELSE /\ total_loss' = total_loss /\ correct' = correct
                    /\ total' = total /\ opt_steps' = opt_steps

\* C15: in train_one_epoch a dialogue adds its mean loss to total_loss, one to total,
\* at most one to correct and takes one optimizer step if and only if it has at
\* least 3 utterances and some adjacent position with a negative candidate; any other
\* dialogue, and every step inside a dialogue, leaves total_loss, correct, total and
\* the parameters as they are.
C15_OnlyScorableDialoguesContribute == [][C15_Step]_vars

\* C15 happens: an epoch over a dialogue of three utterances by one speaker and a
\* dialogue that is scored has returned, one optimizer step taken.
C15_Witness ==
    /\ program = "train_one_epoch" /\ pc = "ep_returned"
    /\ Len(data) = 2
    /\ Len(data[1]) >= 3 /\ ~Scorable(data[1])
    /\ Scorable(data[2])
    /\ total = 1 /\ opt_steps = 1 /\ total_loss > 0

C17_Step ==
    (program \in {"LCD_training", "HT_training"} /\ (checkpoint' /= checkpoint \/ saves' /= saves)) =>
        /\ pc = "loop_compare"
        /\ Len(val_hist) = epoch /\ Len(params_hist) = epoch
        /\ val_hist[epoch] = val_acc
        /\ params = params_hist[epoch]
        /\ val_acc > best_val_acc
        /\ val_acc > 0
        /\ \A e \in 1..epoch - 1 : val_hist[e] < val_acc
        /\ checkpoint' = params
        /\ saves' = Append(saves, epoch)

\* C17: in both training loops the checkpoint is written only when the training pass
\* and the validation pass of the epoch have completed, with the parameters the
\* training pass ended with, and only when the validation accuracy of the epoch is
\* strictly greater than the best seen so far (0.0 at the start).
C17_SaveOnlyAfterValidationImproves == [][C17_Step]_vars

\* C17 happens: a run has ended in which the checkpoint was written, then overwritten,
\* and one epoch wrote nothing.
C17_Witness ==
    /\ program \in {"LCD_training", "HT_training"} /\ pc = "loop_end"
    /\ Len(saves) = 2
    /\ Len(val_hist) > 2

\* C18: the checkpoint is created at the start of the training cell and overwritten at
\* every improvement, so that after any run of the training loop, whatever the
\* validation accuracies were, there is a checkpoint to load.
C18_CheckpointExistsAfterRun ==
    (program \in {"LCD_training", "HT_training"} /\ pc \in {"loop_end", "loaded", "load_failed"}) =>
        /\ checkpoint /= NoCheckpoint
        /\ pc /= "load_failed"

\* The largest validation accuracy of the epochs completed.
BestOf(h) == CHOOSE a \in {h[e] : e \in 1..Len(h)} : \A e \in 1..Len(h) : h[e] <= a

\* The earliest epoch that attained it.
EarliestBest(h) == CHOOSE e \in 1..Len(h) : h[e] = BestOf(h) /\ \A f \in 1..e - 1 : h[f] < BestOf(h)

\* C19: after the training loop the checkpoint holds the best validation snapshot:
\* best_val_acc is the largest validation accuracy of the epochs, and the parameters
\* stored are those of the earliest epoch that attained it.
C19_CheckpointIsBestSnapshot ==
    (program \in {"LCD_training", "HT_training"} /\ pc = "loop_end") =>
        /\ best_val_acc = BestOf(val_hist)
        /\ checkpoint = params_hist[EarliestBest(val_hist)]
\* The number of utterances of the dialogue in row k of the batch, before padding.
RowLength(k) == Len(dataset.dialogues[order[k]])

\* C21: in every batch, the embedding vectors at the padded positions of a dialogue
\* shorter than the longest one of the batch are all-zero in the tensor passed to the
\* document encoder.
C21_PaddedPositionsAreZero ==
    (program = "HT_batch" /\ pc \in {"stacked", "forwarded"}) =>
        \A k \in 1..Len(order) :
            \A j \in (RowLength(k) + 1)..Len(utter_emb_batch[k]) :
                utter_emb_batch[k][j] = ZeroEmbedding

\* C29: every row of a batch is padded to the longest dialogue of the batch; the mask
\* of a row is 1 exactly at the positions of its own utterances, so 1 at its first
\* position; the sequence length does not exceed the positional table, so that the
\* document encoder does not raise and does not mask out the first position.
C29_MaskMarksRealPositions ==
    (program = "HT_batch" /\ pc /= "batch") =>
        /\ Len(padded_utts) = Len(order) /\ Len(mask) = Len(order)
        /\ \E k \in 1..Len(order) : Len(padded_utts[1]) = RowLength(k)
        /\ \A k \in 1..Len(order) :
             /\ RowLength(k) <= Len(padded_utts[1])
             /\ RowLength(k) <= max_utterances
             /\ Len(padded_utts[k]) = Len(padded_utts[1])
             /\ Len(mask[k]) = Len(padded_utts[1])
             /\ \A j \in 1..Len(mask[k]) :
                  /\ mask[k][j] = (IF j <= RowLength(k) THEN 1 ELSE 0)
                  /\ padded_utts[k][j] = (IF j <= RowLength(k) THEN dataset.dialogues[order[k]][j][2] ELSE "")
             /\ mask[k][1] = 1
        /\ Len(padded_utts[1]) <= PositionalLen
        /\ pc /= "raised"
        /\ pc = "forwarded" =>
             \A k \in 1..Len(order) :
                 \A j \in 1..Len(mask[k]) : transformer_mask[k][j] = (j > RowLength(k))

\* A batch went through the document encoder with a row of DefaultMaxUtterances
\* utterances and a shorter row, padded.
C29_Witness ==
    /\ program = "HT_batch" /\ pc = "forwarded"
    /\ max_utterances = DefaultMaxUtterances
    /\ \E k, l \in 1..Len(order) :
         /\ RowLength(k) = DefaultMaxUtterances
         /\ RowLength(l) < RowLength(k)
         /\ mask[l][RowLength(k)] = 0
\* C22: two constructions of the dataset from the same folder with the same seed yield
\* the same sequence of dialogues and the same labels, whatever the order in which the
\* files were listed and the speaker sets enumerated.
C22_ConstructionIsReproducible ==
    (program = "HT_twice" /\ pc = "twice") =>
        /\ first_run.dialogues = second_run.dialogues
        /\ first_run.labels = second_run.labels
\* C23: a loaded dialogue never changes: building a negative (the constructor) or a
\* permutation (permute_dialogue) leaves every dialogue of all_dialogues as it was, so
\* that every label-1 entry of the dataset still equals the loaded dialogue it was
\* stored for, and every dialogue recorded with true label 1 is still a loaded one.
C23_Step ==
    (program \in {"HT", "LCD"}) =>
        /\ Len(all_dialogues') >= Len(all_dialogues)
        /\ \A k \in 1..Len(all_dialogues) : all_dialogues'[k] = all_dialogues[k]
        /\ \A e \in 1..Len(dialogues') :
             labels'[e] = 1 => dialogues'[e] = all_dialogues'[srcs'[e].idx]
        /\ \A e \in 1..Len(evaluated') :
             true'[e] = 1 => \E k \in 1..Len(all_dialogues') : evaluated'[e].dialogue = all_dialogues'[k]

C23_LoadedDialoguesNeverChange == [][C23_Step]_vars

\* The constructor ended with a negative that differs from its source, stored after
\* the label-1 entry of that source.
C23_Witness ==
    /\ program = "HT" /\ pc = "done"
    /\ \E e \in 2..Len(dialogues) :
         /\ labels[e] = 0 /\ labels[e - 1] = 1
         /\ srcs[e - 1].idx = srcs[e].idx
         /\ dialogues[e] /= all_dialogues[srcs[e].idx]
         /\ dialogues[e - 1] = all_dialogues[srcs[e].idx]
\* The true labels test_experiment is to record for the dialogues 1..k of ds: for each
\* one of at least MinTestLen utterances, a 1 followed by n zeros.
RECURSIVE ExpectedTrue(_, _, _)
ExpectedTrue(ds, k, n) ==
    IF k = 0 THEN <<>>
    ELSE ExpectedTrue(ds, k - 1, n)
           \o (IF Len(ds[k]) >= MinTestLen THEN <<1>> \o [i \in 1..n |-> 0] ELSE <<>>)

\* The number of entries of true equal to v.
TrueCount(v) == Cardinality({e \in 1..Len(true) : true[e] = v})

\* The dialogues test_experiment has dealt with: those before the current one, and the
\* current one too when the program ended on it.
Handled == IF pc = "raised" THEN di ELSE di - 1

\* C24: for each held-out dialogue of length >= 3 test_experiment records one entry
\* with true label 1 (the prediction on the original) followed by num_permutations
\* entries with true label 0 (the predictions on its permutations), and nothing for a
\* shorter dialogue; true and pred have the same length; the label-0 entries are
\* num_permutations times as many as the label-1 entries.
C24_TestExperimentRecords ==
    (program = "LCD" /\ pc \in {"test", "done", "raised"}) =>
        /\ Len(true) = Len(pred)
        /\ true = ExpectedTrue(all_dialogues, Handled, num_permutations)
        /\ TrueCount(0) = num_permutations * TrueCount(1)
        /\ \A e \in 1..Len(true) :
             /\ true[e] = 1 => evaluated[e].target = ""
             /\ true[e] = 0 => evaluated[e].target /= "" /\ Len(evaluated[e].dialogue) >= MinTestLen

\* C28: permute_dialogue does not raise, returns exactly num_permutations dialogues,
\* each of the length of the input with the turns of the other speakers unchanged at
\* their indices.
C28_PermuteReturnsEveryPermutation ==
    (program = "LCD") =>
        /\ pc /= "raised"
        /\ Len(permutations) <= num_permutations
        /\ \A e \in 1..Len(permutations) :
             /\ Len(permutations[e]) = Len(all_dialogues[di])
             /\ \A i \in 1..Len(all_dialogues[di]) :
                  all_dialogues[di][i][1] /= choice => permutations[e][i] = all_dialogues[di][i]
        /\ \A e \in 1..Len(evaluated) :
             /\ Len(evaluated[e].dialogue) = Len(evaluated[e].source)
             /\ \A i \in 1..Len(evaluated[e].source) :
                  evaluated[e].source[i][1] /= evaluated[e].target
                      => evaluated[e].dialogue[i] = evaluated[e].source[i]
\* The positions of the sentence whose mask is 1.
RealTokens == {i \in 1..Len(attention_mask) : attention_mask[i] = 1}

\* The sum of component k of the token embeddings at the positions of S.
RECURSIVE TokenSum(_, _)
TokenSum(S, k) ==
    IF S = {} THEN 0
    ELSE LET i == CHOOSE j \in S : TRUE
         IN token_embeddings[i][k] + TokenSum(S \ {i}, k)

\* C25: mean pooling returns the sum of the token vectors at the real positions divided
\* by their number clamped to at least 1: never a division by zero; the arithmetic
\* mean of the n token vectors under an all-ones mask; the zero vector under an
\* all-zero mask.
C25_MeanPooling ==
    (program = "mean_pooling" /\ pc = "returned") =>
        \A k \in 1..EmbDim :
            /\ pooled[k][2] >= 1
            /\ pooled[k][1] = TokenSum(RealTokens, k)
            /\ pooled[k][2] = MaxOf(1, Cardinality(RealTokens))
            /\ RealTokens = 1..Len(token_embeddings) =>
                 pooled[k] = <<TokenSum(1..Len(token_embeddings), k), Len(token_embeddings)>>
            /\ RealTokens = {} => pooled[k] = <<0, 1>>

\* The pooling returned on an all-zero mask over tokens that are not all zero.
C25_Witness ==
    /\ program = "mean_pooling" /\ pc = "returned"
    /\ RealTokens = {}
    /\ \E i \in 1..Len(token_embeddings) : token_embeddings[i][1] /= 0
    /\ Len(token_embeddings) = MaxTokens
\* The last entry of sampled that belongs to dialogue e of data.
LastSampledOf(e) == SampledOf(e)[Len(SampledOf(e))]

\* The dialogues of data, among the first n, of which a position was scored.
Contributing(n) == {e \in 1..n : SampledOf(e) /= <<>>}

\* The contributing dialogues whose last scored position has score_pos > score_neg.
LastPairCorrect(n) ==
    {e \in Contributing(n) : LastSampledOf(e).score_pos > LastSampledOf(e).score_neg}

C26_Step ==
    program = "train_one_epoch" =>
        /\ ei' /= ei =>
             /\ total' = Cardinality(Contributing(ei))
             /\ correct' = Cardinality(LastPairCorrect(ei))
             /\ (correct' = correct + 1) <=>
                   /\ ei \in Contributing(ei)
                   /\ LastSampledOf(ei).score_pos > LastSampledOf(ei).score_neg
        /\ pc' = "ep_returned" =>
             accuracy' = IF Contributing(Len(data)) = {} THEN <<0, 1>>
                         ELSE <<Cardinality(LastPairCorrect(Len(data))),
                                Cardinality(Contributing(Len(data)))>>

\* C26: in train_one_epoch of LCD_in_final a contributing dialogue is counted as
\* correct if and only if score_pos > score_neg at the last position scored in it,
\* whatever the scores of its other positions; the accuracy returned is correct/total,
\* total being the number of contributing dialogues, and 0.0 when there is none.
C26_AccuracyFromLastScoredPair == [][C26_Step]_vars

\* An epoch returned accuracy 1/1 on a dialogue whose first scored position had
\* score_pos <= score_neg, and whose last position was skipped.
C26_Witness ==
    /\ program = "train_one_epoch" /\ pc = "ep_returned"
    /\ Len(data) = 1
    /\ accuracy = <<1, 1>>
    /\ Len(SampledOf(1)) >= 2
    /\ SampledOf(1)[1].score_pos <= SampledOf(1)[1].score_neg
    /\ LastSampledOf(1).i < Len(data[1]) - 1
\* C27: the weight of val_criterion is the weight computed from the training labels,
\* the weight of train_criterion; the ratio of the validation labels is computed and
\* given to no criterion.
C27_ValCriterionUsesTrainingWeight ==
    (program = "HT" /\ pc = "criteria") =>
        /\ val_criterion = <<Len(labels) - SumLabels(labels), SumLabels(labels)>>
        /\ val_criterion = train_criterion
        /\ val_criterion = pos_weight
        /\ val_pos_weight = <<Len(val_labels) - SumLabels(val_labels), SumLabels(val_labels)>>
        /\ val_n_positive > 0 /\ n_positive > 0

\* The two criteria were built with a validation ratio that differs from the
\* training ratio.
C27_Witness ==
    /\ program = "HT" /\ pc = "criteria"
    /\ val_pos_weight[1] * pos_weight[2] /= pos_weight[1] * val_pos_weight[2]
    /\ val_pos_weight[1] > 0 /\ pos_weight[1] > 0
====
